---- MODULE Spec2Model ----
(***************************************************************************)
(* Business-directory backend: bearer-token middleware, lazy user          *)
(* resolution, the Express route handlers of server/routes.ts, and the two *)
(* persistence adapters (DatabaseStorage over Postgres/drizzle,            *)
(* FirestoreStorage over Firestore).                                       *)
(*                                                                         *)
(* The drivers specified over the same state:                              *)
(*   Spec        HTTP requests handled one at a time, DatabaseStorage      *)
(*   SpecConc    HTTP requests interleaved at their awaits                 *)
(*   SpecStorage the IStorage methods of either adapter called directly    *)
(*   SpecFault   as Spec, with one awaited call of each request rejecting  *)
(*   SpecRace    an image upload and a service deletion interleaved        *)
(*   SpecDelete  the browser's deletion of a service and its image files   *)
(*   SpecFetch   the browser's fetchWithAuth                               *)
(*   SpecRouter  the browser's route guards and the auth provider          *)
(*   SpecPhone   the phone field's formatting and validation               *)
(***************************************************************************)
EXTENDS Integers, Sequences, FiniteSets, TLC

VARIABLES
  backend,      \* "db": DatabaseStorage, "fs": FirestoreStorage (the exported `storage`)
  authVariant,  \* which of the two authenticate middlewares is installed (1 or 2)
  store,        \* the persisted tables / collections
  profiles,     \* identity provider's profile store: firestore users/{uid}
  now,          \* wall clock read by new Date() and defaultNow()
  nwrites,      \* number of storage writes performed so far (bounded)
  reqs,         \* per connection slot: the request in flight or just answered
  call,         \* last direct IStorage call (SpecStorage only)
  fault,        \* which awaited call of a request rejects (0: none; SpecFault only)
  client        \* the browser application's state (client drivers only)

vars == <<backend, authVariant, store, profiles, now, nwrites, reqs, call, fault, client>>

----------------------------------------------------------------------------
(* Bounds of the model *)

MaxClock == 2        \* the clock takes the values 1..MaxClock
MaxWrites == 1       \* storage and profile writes performed in one behaviour
MaxFault == 6        \* a request's fault-th awaited call rejects, fault in 1..MaxFault

\* no browser takes part
NoClient == [scene |-> "none"]

----------------------------------------------------------------------------
(* JavaScript values.  Every dynamically typed value is a tagged record so  *)
(* that typeof-style checks and === are ordinary record operations.        *)

Num(n) == [num |-> n]
Str(s) == [str |-> s]
Null == [null |-> TRUE]
Undefined == [undef |-> TRUE]
NaN == [nan |-> TRUE]
Date(t) == [date |-> t]      \* a Date object holding instant t
Iso(t) == [iso |-> t]        \* the string new Date(t).toISOString()

IsNum(v) == "num" \in DOMAIN v
IsStr(v) == "str" \in DOMAIN v \/ "iso" \in DOMAIN v
IsNull(v) == "null" \in DOMAIN v
IsUndefined(v) == "undef" \in DOMAIN v
isNaN(v) == "nan" \in DOMAIN v

\* JS truthiness of a scalar (used by `x || null` and `!x`)
Falsy(v) == \/ IsUndefined(v) \/ IsNull(v) \/ isNaN(v)
            \/ v = Str("") \/ v = Num(0)

\* obj.f for an object modelled as a function on its own keys
Field(obj, f) == IF f \in DOMAIN obj THEN obj[f] ELSE Undefined

\* a spread in which the earlier keys win
SpreadKeepingFirst(a, b) ==
  [f \in DOMAIN a \cup DOMAIN b |-> IF f \in DOMAIN a THEN a[f] ELSE b[f]]

\* {...a, ...b}
Spread(a, b) == [f \in DOMAIN a \cup DOMAIN b |->
                   IF f \in DOMAIN b THEN b[f] ELSE a[f]]

\* a schema that passes unknown keys through
PickAll(obj, ks) == obj

\* the object with only the keys in ks
Pick(obj, ks) == [f \in DOMAIN obj \cap ks |-> obj[f]]

EmptyObj == [f \in {} |-> Null]

----------------------------------------------------------------------------
(* parseInt(req.params.id): the longest prefix of decimal digits, NaN when  *)
(* there is none.  Path parameters are strings; Chars spells them out.      *)

Chars(s) ==
  CASE s = "1"    -> <<"1">>
    [] s = "2"    -> <<"2">>
    [] s = "3"    -> <<"3">>
    [] s = "4"    -> <<"4">>
    [] s = "2x"   -> <<"2", "x">>
    [] s = "abc"  -> <<"a", "b", "c">>
    [] s = "7c2e" -> <<"7", "c", "2", "e">>
    [] s = "a3f1" -> <<"a", "3", "f", "1">>
    [] s = "b9d0" -> <<"b", "9", "d", "0">>
    [] s = "e5a7" -> <<"e", "5", "a", "7">>
    [] OTHER      -> <<>>

DigitChars == <<"0", "1", "2", "3", "4", "5", "6", "7", "8", "9">>
IsDigit(c) == \E d \in 1..10 : DigitChars[d] = c
DigitVal(c) == (CHOOSE d \in 1..10 : DigitChars[d] = c) - 1

RECURSIVE ScanDigits(_, _, _)
ScanDigits(cs, i, acc) ==
  IF i <= Len(cs) /\ IsDigit(cs[i])
  THEN ScanDigits(cs, i + 1, 10 * acc + DigitVal(cs[i]))
  ELSE [n |-> acc, used |-> i - 1]

parseInt(s) ==
  LET r == ScanDigits(Chars(s), 1, 0)
  IN IF r.used = 0 THEN NaN ELSE Num(r.n)

----------------------------------------------------------------------------
(* shared/schema.ts: tables, columns, constraints, insert schemas           *)

Tables == {"users", "companies", "services", "serviceImages", "jobOffers"}

\* text/varchar columns declared .notNull()
RequiredText(t) ==
  CASE t = "users"         -> {"uid", "email"}
    [] t = "companies"     -> {"name", "description"}
    [] t = "services"      -> {"name", "description"}
    [] t = "serviceImages" -> {"url"}
    [] t = "jobOffers"     -> {"title", "description", "employmentType"}

\* nullable text/varchar columns
OptionalText(t) ==
  CASE t = "users"         -> {"displayName", "photoURL"}
    [] t = "companies"     -> {"cnpj", "address", "phone", "website"}
    [] t = "services"      -> {"price", "workingHours"}
    [] t = "serviceImages" -> {}
    [] t = "jobOffers"     -> {"salaryRange", "requirements", "contactEmail",
                               "contactLink"}

\* integer(...).notNull().references(() => parent.id): column -> parent table
ForeignKeys(t) ==
  CASE t = "users"         -> EmptyObj
    [] t = "companies"     -> [ownerId |-> "users"]
    [] t = "services"      -> [companyId |-> "companies"]
    [] t = "serviceImages" -> [serviceId |-> "services"]
    [] t = "jobOffers"     -> [companyId |-> "companies"]

\* timestamp columns with defaultNow()
TimestampCols(t) ==
  IF t = "serviceImages" THEN {"createdAt"} ELSE {"createdAt", "updatedAt"}

Columns(t) == {"id"} \cup RequiredText(t) \cup OptionalText(t)
              \cup DOMAIN ForeignKeys(t) \cup TimestampCols(t)

\* createInsertSchema(table).omit({id, createdAt, updatedAt}): the keys zod keeps
InsertKeys(t) == RequiredText(t) \cup OptionalText(t) \cup DOMAIN ForeignKeys(t)

\* one zod issue per offending key
FieldIssue(t, body, f, partial) ==
  LET v == Field(body, f)
  IN IF IsUndefined(v)
     THEN IF partial \/ f \in OptionalText(t) THEN "ok" ELSE "required"
     ELSE IF f \in RequiredText(t) THEN (IF IsStr(v) THEN "ok" ELSE "invalid_type")
     ELSE IF f \in OptionalText(t)
          THEN (IF IsStr(v) \/ IsNull(v) THEN "ok" ELSE "invalid_type")
     ELSE (IF IsNum(v) THEN "ok" ELSE "invalid_type")

\* schema.safeParse(body) / schema.partial().safeParse(body): unknown keys
\* are stripped from data; errors is the list of field-level issues
safeParse(t, body, partial) ==
  LET bad == {f \in InsertKeys(t) : FieldIssue(t, body, f, partial) # "ok"}
  IN [success |-> bad = {},
      data    |-> Pick(body, InsertKeys(t)),
      errors  |-> {[path |-> f, code |-> FieldIssue(t, body, f, partial)] : f \in bad}]


----------------------------------------------------------------------------
(* The persistent world handed to and returned by every storage call:       *)
(* w = [backend, now, store, profiles].                                     *)

World == [backend |-> backend, now |-> now, store |-> store, profiles |-> profiles]

EmptyStore ==
  [users |-> {}, companies |-> {}, services |-> {}, serviceImages |-> {},
   jobOffers |-> {}, serial |-> [t \in Tables |-> 0]]

\* outcome of an awaited call: the promise resolves with ret, or rejects
Returned(w, v) == [w |-> w, ret |-> v, err |-> FALSE]
Thrown(w) == [w |-> w, ret |-> Undefined, err |-> TRUE]

\* const [x] = rows
First(rows) == IF rows = {} THEN Undefined ELSE CHOOSE x \in rows : TRUE

----------------------------------------------------------------------------
(* Postgres through drizzle (server/db + shared/schema.ts)                  *)

NotNullViolated(t, row) ==
  \E c \in RequiredText(t) \cup DOMAIN ForeignKeys(t) : IsNull(row[c])

\* service_images.service_id declared without .references()
NoImageForeignKey(st, t, row) ==
  \E c \in DOMAIN ForeignKeys(t) :
     t # "serviceImages" /\ ~\E p \in st[ForeignKeys(t)[c]] : p.id = row[c]

ForeignKeyViolated(st, t, row) ==
  \E c \in DOMAIN ForeignKeys(t) :
     ~\E p \in st[ForeignKeys(t)[c]] : p.id = row[c]

\* users.uid declared without .unique()
NeverUnique(st, t, row, self) == FALSE

\* users.uid is .unique()
UniqueViolated(st, t, row, self) ==
  t = "users" /\ \E u \in st.users \ self : u.uid = row.uid

\* rows of other tables that reference one of the rows `gone` of table t
Referenced(st, t, gone) ==
  \E ct \in Tables : \E c \in DOMAIN ForeignKeys(ct) :
     /\ ForeignKeys(ct)[c] = t
     /\ \E r \in st[ct] : \E g \in gone : r[c] = g.id

\* db.select().from(t).where(eq(t.col, v))
DbSelect(w, t, col, v) == Returned(w, {x \in w.store[t] : x[col] = v})

\* db.insert(t).values(values).returning(): serial id, defaultNow() stamps,
\* NULL for absent nullable columns; a constraint violation rejects (the
\* sequence value is consumed all the same)
DbInsert(w, t, values) ==
  LET st  == w.store
      id  == st.serial[t] + 1
      row == [c \in Columns(t) |->
                IF c = "id" THEN Num(id)
                ELSE IF c \in DOMAIN values THEN values[c]
                ELSE IF c \in TimestampCols(t) THEN Date(w.now)
                ELSE Null]
      st1 == [st EXCEPT !.serial[t] = id]
  IN IF \/ NotNullViolated(t, row)
        \/ ForeignKeyViolated(st, t, row)
        \/ UniqueViolated(st, t, row, {})
     THEN Thrown([w EXCEPT !.store = st1])
     ELSE Returned([w EXCEPT !.store = [st1 EXCEPT ![t] = @ \cup {row}]], row)

\* set(patch) without the updatedAt: new Date() entry
DbUpdateKeepingStamp(w, t, id, patch) ==
  LET hit == {x \in w.store[t] : x.id = id}
  IN IF hit = {} THEN Returned(w, Undefined)
     ELSE LET old == CHOOSE x \in hit : TRUE
              new == [c \in Columns(t) |->
                        IF c \in DOMAIN patch THEN patch[c] ELSE old[c]]
          IN IF \/ NotNullViolated(t, new)
                \/ ForeignKeyViolated(w.store, t, new)
                \/ UniqueViolated(w.store, t, new, {old})
             THEN Thrown(w)
             ELSE Returned([w EXCEPT !.store[t] = (@ \ {old}) \cup {new}], new)

\* db.update(t).set({...patch, updatedAt: new Date()}).where(eq(t.id, id)).returning()
DbUpdate(w, t, id, patch) ==
  LET st  == w.store
      hit == {x \in st[t] : x.id = id}
  IN IF hit = {} THEN Returned(w, Undefined)
     ELSE LET old == CHOOSE x \in hit : TRUE
              new == [c \in Columns(t) |->
                        IF c = "updatedAt" THEN Date(w.now)
                        ELSE IF c \in DOMAIN patch THEN patch[c]
                        ELSE old[c]]
          IN IF \/ NotNullViolated(t, new)
                \/ ForeignKeyViolated(st, t, new)
                \/ UniqueViolated(st, t, new, {old})
             THEN Thrown(w)
             ELSE Returned([w EXCEPT !.store[t] = (@ \ {old}) \cup {new}], new)

\* db.delete(t).where(eq(t.col, v)): rejected while a row is still referenced
DbDelete(w, t, col, v) ==
  LET st   == w.store
      gone == {x \in st[t] : x[col] = v}
  IN IF Referenced(st, t, gone) THEN Thrown(w)
     ELSE Returned([w EXCEPT !.store[t] = @ \ gone], Undefined)

----------------------------------------------------------------------------
(* Firestore through firebase-admin (server/firebase.ts `firestore`)        *)

\* Collection 'users' also holds the profile documents users/{uid} that the
\* client writes at registration (same Firestore database).
FsDocs(w, coll) ==
  IF coll = "users" THEN w.store.users \cup w.profiles ELSE w.store[coll]

\* collection.doc(path) accepts only a non-empty string
FsValidPath(id) == IsStr(id) /\ id # Str("")

\* document ids in Firestore's default order (by name)
DocIdOrder ==
  <<"7c2e", "a3f1", "b9d0", "e5a7", "uidA", "uidB", "uidC">>
DocRank(id) == CHOOSE i \in 1..Len(DocIdOrder) : Str(DocIdOrder[i]) = id

\* collection.doc(id).get(): {id: doc.id, ...doc.data()} or undefined
FsGet(w, coll, id) ==
  IF ~FsValidPath(id) THEN Thrown(w)
  ELSE Returned(w, First({d \in FsDocs(w, coll) : d.id = id}))

\* collection.where(f, '==', v).get()
FsWhere(w, coll, f, v) ==
  Returned(w, {d \in FsDocs(w, coll) : f \in DOMAIN d /\ d[f] = v})

\* collection.where(f, '==', v).limit(1).get()
FsWhereLimit1(w, coll, f, v) ==
  LET hits == FsWhere(w, coll, f, v).ret
  IN Returned(w, IF hits = {} THEN Undefined
                 ELSE CHOOSE d \in hits :
                        \A e \in hits : DocRank(d.id) <= DocRank(e.id))

\* collection.doc(id).set(data); resolves with {id, ...data}
FsSet(w, coll, id, data) ==
  LET doc == Spread([id |-> id], data)
  IN Returned([w EXCEPT !.store[coll] = {d \in @ : d.id # id} \cup {doc}], doc)

\* collection.doc(id).update(patch): NOT_FOUND when the document is missing;
\* the adapter resolves with {id, ...patch}, not with the stored document
FsUpdate(w, coll, id, patch) ==
  IF ~FsValidPath(id) THEN Thrown(w)
  ELSE LET hit == {d \in w.store[coll] : d.id = id}
       IN IF hit = {} THEN Thrown(w)
          ELSE LET old == CHOOSE d \in hit : TRUE
               IN Returned([w EXCEPT !.store[coll] =
                               (@ \ {old}) \cup {Spread(old, patch)}],
                           Spread([id |-> id], patch))

\* collection.doc(id).delete(): succeeds whether or not the document exists
FsDelete(w, coll, id) ==
  IF ~FsValidPath(id) THEN Thrown(w)
  ELSE Returned([w EXCEPT !.store[coll] = {d \in @ : d.id # id}], Undefined)


----------------------------------------------------------------------------
(* DatabaseStorage (server/storage.ts, relational adapter)                  *)

DatabaseStorage_getUserByUid(w, uid) ==
  Returned(w, First(DbSelect(w, "users", "uid", uid).ret))
DatabaseStorage_createUser(w, insertUser) == DbInsert(w, "users", insertUser)
DatabaseStorage_getCompany(w, id) ==
  Returned(w, First(DbSelect(w, "companies", "id", id).ret))
\* the select without its where clause
getCompaniesOfAll(w, userId) == Returned(w, w.store.companies)
DatabaseStorage_getUserCompanies(w, userId) ==
  DbSelect(w, "companies", "ownerId", userId)
\* companies.ownerId declared unique: a second company of an owner rejects
createCompanyUniqueOwner(w, company) ==
  IF \E c \in w.store.companies : c.ownerId = company.ownerId
  THEN Thrown(w) ELSE DbInsert(w, "companies", company)
DatabaseStorage_createCompany(w, company) == DbInsert(w, "companies", company)
DatabaseStorage_updateCompany(w, id, company) == DbUpdate(w, "companies", id, company)
DatabaseStorage_getService(w, id) ==
  Returned(w, First(DbSelect(w, "services", "id", id).ret))
DatabaseStorage_getCompanyServices(w, companyId) ==
  DbSelect(w, "services", "companyId", companyId)
DatabaseStorage_createService(w, service) == DbInsert(w, "services", service)
DatabaseStorage_updateService(w, id, service) == DbUpdate(w, "services", id, service)
\* deleteService awaits two statements: first the images, then the service
\* the service row deleted by the first call
deleteServiceRowFirst(w, id) == DbDelete(w, "services", "id", id)
DatabaseStorage_deleteService_images(w, id) ==
  DbDelete(w, "serviceImages", "serviceId", id)
DatabaseStorage_deleteService_service(w, id) ==
  DbDelete(w, "services", "id", id)
DatabaseStorage_deleteService(w, id) ==
  LET a == DatabaseStorage_deleteService_images(w, id)
  IN IF a.err THEN a ELSE DatabaseStorage_deleteService_service(a.w, id)
\* the select without its where clause
getServiceImagesOfAll(w, serviceId) == Returned(w, w.store.serviceImages)
DatabaseStorage_getServiceImages(w, serviceId) ==
  DbSelect(w, "serviceImages", "serviceId", serviceId)
DatabaseStorage_createServiceImage(w, image) == DbInsert(w, "serviceImages", image)
DatabaseStorage_deleteServiceImage(w, id) == DbDelete(w, "serviceImages", "id", id)
DatabaseStorage_getJobOffer(w, id) ==
  Returned(w, First(DbSelect(w, "jobOffers", "id", id).ret))
DatabaseStorage_getCompanyJobOffers(w, companyId) ==
  DbSelect(w, "jobOffers", "companyId", companyId)
DatabaseStorage_createJobOffer(w, jobOffer) == DbInsert(w, "jobOffers", jobOffer)
DatabaseStorage_updateJobOffer(w, id, jobOffer) == DbUpdate(w, "jobOffers", id, jobOffer)
DatabaseStorage_deleteJobOffer(w, id) == DbDelete(w, "jobOffers", "id", id)

----------------------------------------------------------------------------
(* FirestoreStorage (server/firestore-storage.ts, document adapter).        *)
(* `id` of the create methods is the value uuidv4() returns.                *)

Stamps(w) == [createdAt |-> Iso(w.now), updatedAt |-> Iso(w.now)]
UpdateStamp(w) == [updatedAt |-> Iso(w.now)]

FirestoreStorage_getUserByUid(w, uid) == FsWhereLimit1(w, "users", "uid", uid)
FirestoreStorage_createUser(w, userData, id) ==
  FsSet(w, "users", id, Spread(userData, Stamps(w)))
FirestoreStorage_getCompany(w, id) == FsGet(w, "companies", id)
FirestoreStorage_getUserCompanies(w, userId) ==
  FsWhere(w, "companies", "ownerId", userId)
FirestoreStorage_createCompany(w, companyData, id) ==
  FsSet(w, "companies", id, Spread(companyData, Stamps(w)))
FirestoreStorage_updateCompany(w, id, companyData) ==
  FsUpdate(w, "companies", id, Spread(companyData, UpdateStamp(w)))
FirestoreStorage_getService(w, id) == FsGet(w, "services", id)
FirestoreStorage_getCompanyServices(w, companyId) ==
  FsWhere(w, "services", "companyId", companyId)
FirestoreStorage_createService(w, serviceData, id) ==
  FsSet(w, "services", id, Spread(serviceData, Stamps(w)))
FirestoreStorage_updateService(w, id, serviceData) ==
  FsUpdate(w, "services", id, Spread(serviceData, UpdateStamp(w)))
FirestoreStorage_deleteService(w, id) == FsDelete(w, "services", id)
FirestoreStorage_getServiceImages(w, serviceId) ==
  FsWhere(w, "serviceImages", "serviceId", serviceId)
FirestoreStorage_createServiceImage(w, imageData, id) ==
  FsSet(w, "serviceImages", id, Spread(imageData, [createdAt |-> Iso(w.now)]))
FirestoreStorage_deleteServiceImage(w, id) == FsDelete(w, "serviceImages", id)
FirestoreStorage_getJobOffer(w, id) == FsGet(w, "jobOffers", id)
FirestoreStorage_getCompanyJobOffers(w, companyId) ==
  FsWhere(w, "jobOffers", "companyId", companyId)
FirestoreStorage_createJobOffer(w, jobOfferData, id) ==
  FsSet(w, "jobOffers", id, Spread(jobOfferData, Stamps(w)))
FirestoreStorage_updateJobOffer(w, id, jobOfferData) ==
  FsUpdate(w, "jobOffers", id, Spread(jobOfferData, UpdateStamp(w)))
FirestoreStorage_deleteJobOffer(w, id) == FsDelete(w, "jobOffers", id)

----------------------------------------------------------------------------
(* `storage`: whichever adapter server/storage.ts exports                   *)

storage_getUserByUid(w, uid) ==
  IF w.backend = "db" THEN DatabaseStorage_getUserByUid(w, uid)
  ELSE FirestoreStorage_getUserByUid(w, uid)
storage_createUser(w, data, uuid) ==
  IF w.backend = "db" THEN DatabaseStorage_createUser(w, data)
  ELSE FirestoreStorage_createUser(w, data, uuid)
storage_getCompany(w, id) ==
  IF w.backend = "db" THEN DatabaseStorage_getCompany(w, id)
  ELSE FirestoreStorage_getCompany(w, id)
storage_getUserCompanies(w, userId) ==
  IF w.backend = "db" THEN DatabaseStorage_getUserCompanies(w, userId)
  ELSE FirestoreStorage_getUserCompanies(w, userId)
storage_createCompany(w, data, uuid) ==
  IF w.backend = "db" THEN DatabaseStorage_createCompany(w, data)
  ELSE FirestoreStorage_createCompany(w, data, uuid)
storage_updateCompany(w, id, data) ==
  IF w.backend = "db" THEN DatabaseStorage_updateCompany(w, id, data)
  ELSE FirestoreStorage_updateCompany(w, id, data)
storage_getService(w, id) ==
  IF w.backend = "db" THEN DatabaseStorage_getService(w, id)
  ELSE FirestoreStorage_getService(w, id)
storage_getCompanyServices(w, companyId) ==
  IF w.backend = "db" THEN DatabaseStorage_getCompanyServices(w, companyId)
  ELSE FirestoreStorage_getCompanyServices(w, companyId)
storage_createService(w, data, uuid) ==
  IF w.backend = "db" THEN DatabaseStorage_createService(w, data)
  ELSE FirestoreStorage_createService(w, data, uuid)
storage_updateService(w, id, data) ==
  IF w.backend = "db" THEN DatabaseStorage_updateService(w, id, data)
  ELSE FirestoreStorage_updateService(w, id, data)
storage_deleteService(w, id) ==
  IF w.backend = "db" THEN DatabaseStorage_deleteService(w, id)
  ELSE FirestoreStorage_deleteService(w, id)
storage_getServiceImages(w, serviceId) ==
  IF w.backend = "db" THEN DatabaseStorage_getServiceImages(w, serviceId)
  ELSE FirestoreStorage_getServiceImages(w, serviceId)
storage_createServiceImage(w, data, uuid) ==
  IF w.backend = "db" THEN DatabaseStorage_createServiceImage(w, data)
  ELSE FirestoreStorage_createServiceImage(w, data, uuid)
storage_deleteServiceImage(w, id) ==
  IF w.backend = "db" THEN DatabaseStorage_deleteServiceImage(w, id)
  ELSE FirestoreStorage_deleteServiceImage(w, id)
storage_getJobOffer(w, id) ==
  IF w.backend = "db" THEN DatabaseStorage_getJobOffer(w, id)
  ELSE FirestoreStorage_getJobOffer(w, id)
storage_getCompanyJobOffers(w, companyId) ==
  IF w.backend = "db" THEN DatabaseStorage_getCompanyJobOffers(w, companyId)
  ELSE FirestoreStorage_getCompanyJobOffers(w, companyId)
storage_createJobOffer(w, data, uuid) ==
  IF w.backend = "db" THEN DatabaseStorage_createJobOffer(w, data)
  ELSE FirestoreStorage_createJobOffer(w, data, uuid)
storage_updateJobOffer(w, id, data) ==
  IF w.backend = "db" THEN DatabaseStorage_updateJobOffer(w, id, data)
  ELSE FirestoreStorage_updateJobOffer(w, id, data)
storage_deleteJobOffer(w, id) ==
  IF w.backend = "db" THEN DatabaseStorage_deleteJobOffer(w, id)
  ELSE FirestoreStorage_deleteJobOffer(w, id)

----------------------------------------------------------------------------
(* Identity provider (server/firebase.ts)                                   *)

\* auth.verifyIdToken(token): the decoded claims of a token the provider
\* issued and still accepts; anything else rejects.  A token is the text the
\* middleware cut out of the header, as a sequence of lexemes.
verifyToken(token) ==
  CASE token = <<"tokA">> -> [err |-> FALSE,
                              ret |-> [uid |-> Str("uidA"), email |-> Str("a@rbg.pt")]]
    [] token = <<"tokB">> -> [err |-> FALSE, ret |-> [uid |-> Str("uidB")]]
    [] token = <<"tokC">> -> [err |-> FALSE,
                              ret |-> [uid |-> Str("uidC"), email |-> Str("c@rbg.pt")]]
    [] OTHER -> [err |-> TRUE, ret |-> Undefined]

\* a missing profile document read as an empty profile
getUserDataOrEmpty(w, uid) ==
  LET hit == {p \in w.profiles : p.id = uid}
  IN IF hit # {}
     THEN LET userDoc == CHOOSE p \in hit : TRUE
          IN Returned(w, Pick(userDoc, DOMAIN userDoc \ {"id"}))
     ELSE Returned(w, EmptyObj)

\* firestore.collection('users').doc(uid).update(data): merges data into the
\* profile document, NOT_FOUND when there is none
updateUserData(w, uid, data) ==
  LET hit == {p \in w.profiles : p.id = uid}
  IN IF hit = {} THEN Thrown(w)
     ELSE LET old == CHOOSE p \in hit : TRUE
          IN Returned([w EXCEPT !.profiles = (@ \ {old}) \cup {Spread(old, data)}],
                      [bool |-> TRUE])

\* the first profile document of the collection, whatever uid is asked for
getUserDataOfFirst(w, uid) ==
  IF w.profiles = {} THEN Returned(w, Null)
  ELSE LET userDoc == CHOOSE p \in w.profiles :
                        \A q \in w.profiles : DocRank(p.id) <= DocRank(q.id)
       IN Returned(w, Pick(userDoc, DOMAIN userDoc \ {"id"}))

\* firestore.collection('users').doc(uid).get(): data() or null
getUserData(w, uid) ==
  LET hit == {p \in w.profiles : p.id = uid}
  IN IF hit # {}
     THEN LET userDoc == CHOOSE p \in hit : TRUE
          IN Returned(w, Pick(userDoc, DOMAIN userDoc \ {"id"}))
     ELSE Returned(w, Null)

\* profile documents written by the client at registration: uidA and uidB
\* have one (uidB signed in without a photo), uidC has none
InitialProfiles ==
  {[id |-> Str("uidA"), uid |-> Str("uidA"), email |-> Str("a@rbg.pt"),
    displayName |-> Str("Ana"), photoURL |-> Str("https://img/ana.png")],
   [id |-> Str("uidB"), uid |-> Str("uidB"), email |-> Str("b@rbg.pt"),
    displayName |-> Str("Bruno"), photoURL |-> Null]}


----------------------------------------------------------------------------
(* A request in flight.  pc names the await the handler is suspended at.    *)

Idle == [pc |-> "idle"]

NewRequest(route, hdr, param, body, uuids, pre) ==
  [route |-> route, hdr |-> hdr, param |-> param, body |-> body,
   uuids |-> uuids,            \* what uuidv4() will return to this request
   pre |-> pre,                \* the store when the request arrived
   pc |-> "authenticate",
   user |-> Undefined,         \* req.user
   token |-> <<>>,             \* req.token
   invoked |-> FALSE,          \* next() was called: the route handler ran
   id |-> Undefined,           \* the parsed path id
   resource |-> Undefined,     \* the service / job offer addressed
   image |-> Undefined,        \* images[0]
   company |-> Undefined,
   updated |-> Undefined,      \* updatedService
   userCompanies |-> Undefined, \* the list the one-company check read
   dbUser |-> Undefined,
   userData |-> Undefined,
   data |-> EmptyObj,          \* result.data of safeParse
   status |-> 0,               \* status of the response sent (0: none yet)
   payload |-> Undefined,      \* its JSON body
   nsend |-> 0,                \* number of res.json() calls made
   unhandled |-> FALSE,        \* the handler's promise rejected
   reads |-> 0,                \* storage reads issued
   writes |-> 0,               \* storage and profile writes issued
   fault |-> fault,            \* awaited calls left until one rejects (0: none)
   failed |-> ""]              \* the awaited call that rejected

Msg(m) == [message |-> m]
\* the 400 body reduced to its message
InvalidAsMessage(m, errs) == [message |-> m]
Invalid(m, errs) == [message |-> m, errors |-> errs]
Success == [success |-> TRUE]

Goto(w, r, pc) == [w |-> w, r |-> [r EXCEPT !.pc = pc]]
DidRead(r) == [r EXCEPT !.reads = @ + 1]
DidWrite(r) == [r EXCEPT !.writes = @ + 1]

HeadersSent(r) == r.status # 0

\* res.status(s).json(p)
Send(r, status, payload) ==
  IF HeadersSent(r) THEN [r EXCEPT !.nsend = @ + 1]
  ELSE [r EXCEPT !.status = status, !.payload = payload, !.nsend = @ + 1]

\* a catch block that reports which call failed
FailWithDetail(w, r) ==
  [w |-> w,
   r |-> [Send(r, 500, [message |-> "Internal server error", error |-> r.failed])
            EXCEPT !.unhandled = HeadersSent(r), !.pc = "done"]]

\* catch (error) { res.status(500).json({message: "Internal server error"}) }
\* once a response is out, json() throws and the rejection is unhandled
Fail(w, r) ==
  [w |-> w,
   r |-> [Send(r, 500, Msg("Internal server error")) EXCEPT
            !.unhandled = HeadersSent(r), !.pc = "done"]]

\* return res.status(s).json(p) inside the handler's try block
Reply(w, r, status, payload) ==
  IF HeadersSent(r)
  THEN Fail(w, [r EXCEPT !.nsend = @ + 1])   \* ERR_HTTP_HEADERS_SENT -> catch
  ELSE [w |-> w, r |-> [Send(r, status, payload) EXCEPT !.pc = "done"]]

----------------------------------------------------------------------------
(* server/middleware/auth.ts: authenticate (both variants)                  *)

\* an Authorization header as lexemes: the literal "Bearer ", single spaces,
\* and other text
AbsentHeader == [present |-> FALSE, lex |-> <<>>]
Header(lex) == [present |-> TRUE, lex |-> lex]

startsWithBearer(h) == Len(h.lex) >= 1 /\ h.lex[1] = "Bearer "

RECURSIVE UpToBearer(_)
UpToBearer(lex) ==
  IF lex = <<>> \/ Head(lex) = "Bearer " THEN <<>>
  ELSE <<Head(lex)>> \o UpToBearer(Tail(lex))

\* authHeader.split('Bearer ')[1], for a header that starts with 'Bearer '
splitBearer1(h) == UpToBearer(Tail(h.lex))

RECURSIVE trimStart(_)
trimStart(t) == IF t # <<>> /\ Head(t) = " " THEN trimStart(Tail(t)) ELSE t
RECURSIVE trimEnd(_)
trimEnd(t) ==
  IF t # <<>> /\ t[Len(t)] = " " THEN trimEnd(SubSeq(t, 1, Len(t) - 1)) ELSE t
trim(t) == trimEnd(trimStart(t))

Unauthorized(r, m) == [Send(r, 401, Msg(m)) EXCEPT !.pc = "done"]

\* next() called whatever verifyToken answered; a rejected token passes
\* on with claims that name nobody
AuthenticatedUnverified(r, token) ==
  LET v == verifyToken(token)
  IN [r EXCEPT !.user = IF v.err THEN [uid |-> Str("")] ELSE v.ret,
               !.token = token, !.invoked = TRUE, !.pc = "entry"]

Authenticated(r, token) ==
  LET v == verifyToken(token)
  IN IF v.err THEN Unauthorized(r, "Unauthorized: Invalid token")
     ELSE [r EXCEPT !.user = v.ret, !.token = token, !.invoked = TRUE,
                    !.pc = "entry"]

authenticate1(r) ==
  IF ~r.hdr.present \/ r.hdr.lex = <<>>
  THEN Unauthorized(r, "Unauthorized: No token provided")
  ELSE IF ~startsWithBearer(r.hdr)
  THEN Unauthorized(r, "Unauthorized: Invalid token format")
  ELSE LET token == trim(splitBearer1(r.hdr))
       IN IF token = <<>>
          THEN Unauthorized(r, "Unauthorized: Invalid token format")
          ELSE Authenticated(r, token)

authenticate2(r) ==
  IF ~r.hdr.present \/ r.hdr.lex = <<>> \/ ~startsWithBearer(r.hdr)
  THEN Unauthorized(r, "Unauthorized: No token provided")
  ELSE LET token == splitBearer1(r.hdr)
       IN IF token = <<>>
          THEN Unauthorized(r, "Unauthorized: Invalid token format")
          ELSE Authenticated(r, token)

authenticate(variant, r) ==
  IF variant = 1 THEN authenticate1(r) ELSE authenticate2(r)

----------------------------------------------------------------------------
(* server/routes.ts: getUserByFirebaseUid                                   *)

UserPcs == {"getUserByUid", "getUserData", "createUser"}

\* ends with pc = "afterUser" and r.dbUser the User or null, or in the
\* caller's catch block when an awaited call rejects
getUserByFirebaseUid(w, r) ==
  CASE r.pc = "getUserByUid" ->
         IF IsUndefined(r.user) \/ Falsy(Field(r.user, "uid"))
         THEN Goto(w, [Send(r, 401, Msg("Unauthorized")) EXCEPT !.dbUser = Null],
                   "afterUser")
         ELSE LET o  == storage_getUserByUid(w, r.user.uid)
                  r1 == DidRead(r)
              IN IF o.err THEN Fail(o.w, r1)
                 ELSE IF IsUndefined(o.ret) THEN Goto(o.w, r1, "getUserData")
                 ELSE Goto(o.w, [r1 EXCEPT !.dbUser = o.ret], "afterUser")
    [] r.pc = "getUserData" ->
         LET o == getUserData(w, r.user.uid)
         IN IF o.err THEN Fail(o.w, r)
            ELSE IF IsNull(o.ret)
            THEN Goto(o.w, [Send(r, 404, Msg("User not found")) EXCEPT
                              !.dbUser = Null], "afterUser")
            ELSE Goto(o.w, [r EXCEPT !.userData = o.ret], "createUser")
    [] r.pc = "createUser" ->
         LET orNull(v) == IF Falsy(v) THEN Null ELSE v
             email == Field(r.user, "email")
             o  == storage_createUser(w,
                     [uid |-> r.user.uid,
                      email |-> IF Falsy(email) THEN Str("") ELSE email,
                      displayName |-> orNull(Field(r.userData, "displayName")),
                      photoURL |-> orNull(Field(r.userData, "photoURL"))],
                     Str(r.uuids[1]))
             r1 == DidWrite(r)
         IN IF o.err THEN Fail(o.w, r1)
            ELSE Goto(o.w, [r1 EXCEPT !.dbUser = o.ret], "afterUser")

\* !dbUser || !('id' in dbUser)
NoUser(dbUser) == IsNull(dbUser) \/ "id" \notin DOMAIN dbUser

\* the comparison of ownerId with the caller's id left out
NotOwnerUnchecked(company, dbUser) == NoUser(dbUser)

\* !dbUser || company.ownerId !== dbUser.id
NotOwner(company, dbUser) ==
  NoUser(dbUser) \/ Field(company, "ownerId") # dbUser.id

----------------------------------------------------------------------------
(* server/routes.ts: steps shared by the handlers.  One CASE arm per await: *)
(* the arm performs the awaited call and runs on to the next await.         *)

\* the isNaN check left out
ParseIdUnchecked(w, r, invalid, next) ==
  Goto(w, [r EXCEPT !.id = parseInt(r.param)], next)

\* const id = parseInt(req.params.x); if (isNaN(id)) return 400
ParseId(w, r, invalid, next) ==
  LET id == parseInt(r.param)
  IN IF isNaN(id) THEN Reply(w, r, 400, Msg(invalid))
     ELSE Goto(w, [r EXCEPT !.id = id], next)

\* the existence check left out: a missing row is passed on as undefined
LoadedUnchecked(o, r, slot, notFound, next) ==
  IF o.err THEN Fail(o.w, DidRead(r))
  ELSE Goto(o.w, [DidRead(r) EXCEPT ![slot] = o.ret], next)

\* const x = await storage.getX(id); if (!x) return 404
Loaded(o, r, slot, notFound, next) ==
  LET r1 == DidRead(r)
  IN IF o.err THEN Fail(o.w, r1)
     ELSE IF IsUndefined(o.ret) THEN Reply(o.w, r1, 404, Msg(notFound))
     ELSE Goto(o.w, [r1 EXCEPT ![slot] = o.ret], next)

\* const company = await storage.getCompany(companyId); if (!company) return 404;
\* const dbUser = await getUserByFirebaseUid(req, res)
LoadCompany(w, r, companyId) ==
  Loaded(storage_getCompany(w, companyId), r, "company", "Company not found",
         "getUserByUid")

\* the response to a storage write: res.status(s).json(entity)
Written(o, r, status, payload) ==
  LET r1 == DidWrite(r)
  IN IF o.err THEN Fail(o.w, r1) ELSE Reply(o.w, r1, status, payload)

\* images.map(img => img.url), order left to the adapter
Urls(images) == {img.url : img \in images}

----------------------------------------------------------------------------
(* server/routes.ts: authentication and user routes                         *)

\* res.json(userData): the profile data, or null when there is no profile
GET_auth_me(w, r) ==
  CASE r.pc = "entry" -> Goto(w, r, "me_getUserData")
    [] r.pc = "me_getUserData" ->
         LET o == getUserData(w, r.user.uid)
         IN IF o.err THEN Fail(o.w, r) ELSE Reply(o.w, r, 200, o.ret)

\* the whole request body is merged into the caller's profile document
POST_user_settings(w, r) ==
  CASE r.pc = "entry" -> Goto(w, r, "updateUserData")
    [] r.pc = "updateUserData" ->
         Written(updateUserData(w, r.user.uid, r.body), r, 200, Success)

----------------------------------------------------------------------------
(* server/routes.ts: company routes                                         *)

GET_companies(w, r) ==
  CASE r.pc = "entry" -> Goto(w, r, "getUserByUid")
    [] r.pc = "afterUser" ->
         IF NoUser(r.dbUser) THEN Reply(w, r, 404, Msg("User not found"))
         ELSE Goto(w, r, "getUserCompanies")
    [] r.pc = "getUserCompanies" ->
         LET o  == storage_getUserCompanies(w, r.dbUser.id)
             r1 == DidRead(r)
         IN IF o.err THEN Fail(o.w, r1) ELSE Reply(o.w, r1, 200, [list |-> o.ret])

GET_companies_id(w, r) ==
  CASE r.pc = "entry" -> ParseId(w, r, "Invalid company ID", "getCompany")
    [] r.pc = "getCompany" -> LoadCompany(w, r, r.id)
    [] r.pc = "afterUser" ->
         IF NotOwner(r.company, r.dbUser)
         THEN Reply(w, r, 403, Msg("Not authorized to view this company"))
         ELSE Reply(w, r, 200, r.company)

POST_companies(w, r) ==
  CASE r.pc = "entry" ->
         LET result == safeParse("companies", r.body, FALSE)
         IN IF ~result.success
            THEN Reply(w, r, 400, Invalid("Invalid company data", result.errors))
            ELSE Goto(w, [r EXCEPT !.data = result.data], "getUserByUid")
    [] r.pc = "afterUser" ->
         IF NoUser(r.dbUser) THEN Reply(w, r, 404, Msg("User not found"))
         ELSE Goto(w, r, "getUserCompanies")
    [] r.pc = "getUserCompanies" ->
         LET o  == storage_getUserCompanies(w, r.dbUser.id)
             r1 == DidRead(r)
         IN IF o.err THEN Fail(o.w, r1)
            ELSE IF Cardinality(o.ret) > 0
            THEN Reply(o.w, [r1 EXCEPT !.userCompanies = [list |-> o.ret]], 400,
                       Msg("User already has a company"))
            ELSE Goto(o.w, [r1 EXCEPT !.userCompanies = [list |-> o.ret]], "createCompany")
    [] r.pc = "createCompany" ->
         LET o == storage_createCompany(w,
                    Spread(r.data, [ownerId |-> r.dbUser.id]), Str(r.uuids[2]))
         IN Written(o, r, 201, o.ret)

PUT_companies_id(w, r) ==
  CASE r.pc = "entry" -> ParseId(w, r, "Invalid company ID", "getCompany")
    [] r.pc = "getCompany" -> LoadCompany(w, r, r.id)
    [] r.pc = "afterUser" ->
         IF NotOwner(r.company, r.dbUser)
         THEN Reply(w, r, 403, Msg("Not authorized to update this company"))
         ELSE LET result == safeParse("companies", r.body, TRUE)
              IN IF ~result.success
                 THEN Reply(w, r, 400, Invalid("Invalid company data", result.errors))
                 ELSE Goto(w, [r EXCEPT !.data = result.data], "updateCompany")
    [] r.pc = "updateCompany" ->
         LET o == storage_updateCompany(w, r.id, r.data)
         IN Written(o, r, 200, o.ret)

----------------------------------------------------------------------------
(* server/routes.ts: service routes                                         *)

GET_companies_services(w, r) ==
  CASE r.pc = "entry" -> ParseId(w, r, "Invalid company ID", "getCompany")
    [] r.pc = "getCompany" -> LoadCompany(w, r, r.id)
    [] r.pc = "afterUser" ->
         IF NotOwner(r.company, r.dbUser)
         THEN Reply(w, r, 403, Msg("Not authorized to view services for this company"))
         ELSE Goto(w, r, "getCompanyServices")
    [] r.pc = "getCompanyServices" ->
         LET o  == storage_getCompanyServices(w, r.id)
             r1 == DidRead(r)
             withImages(service) ==
               Spread(service,
                      [images |-> Urls(storage_getServiceImages(o.w, service.id).ret)])
         IN IF o.err THEN Fail(o.w, r1)
            ELSE Reply(o.w, r1, 200, [list |-> {withImages(sv) : sv \in o.ret}])

GET_services_id(w, r) ==
  CASE r.pc = "entry" -> ParseId(w, r, "Invalid service ID", "getService")
    [] r.pc = "getService" ->
         Loaded(storage_getService(w, r.id), r, "resource", "Service not found",
                "getCompany")
    [] r.pc = "getCompany" -> LoadCompany(w, r, Field(r.resource, "companyId"))
    [] r.pc = "afterUser" ->
         IF NotOwner(r.company, r.dbUser)
         THEN Reply(w, r, 403, Msg("Not authorized to view this service"))
         ELSE Goto(w, r, "getServiceImages")
    [] r.pc = "getServiceImages" ->
         LET o  == storage_getServiceImages(w, r.id)
             r1 == DidRead(r)
         IN IF o.err THEN Fail(o.w, r1)
            ELSE Reply(o.w, r1, 200, Spread(r.resource, [images |-> Urls(o.ret)]))

POST_companies_services(w, r) ==
  CASE r.pc = "entry" -> ParseId(w, r, "Invalid company ID", "getCompany")
    [] r.pc = "getCompany" -> LoadCompany(w, r, r.id)
    [] r.pc = "afterUser" ->
         IF NotOwner(r.company, r.dbUser)
         THEN Reply(w, r, 403, Msg("Not authorized to create services for this company"))
         ELSE LET result == safeParse("services",
                                      Spread(r.body, [companyId |-> r.id]), FALSE)
              IN IF ~result.success
                 THEN Reply(w, r, 400, Invalid("Invalid service data", result.errors))
                 ELSE Goto(w, [r EXCEPT !.data = result.data], "createService")
    [] r.pc = "createService" ->
         LET o == storage_createService(w, r.data, Str(r.uuids[2]))
         IN Written(o, r, 201, o.ret)

PUT_services_id(w, r) ==
  CASE r.pc = "entry" -> ParseId(w, r, "Invalid service ID", "getService")
    [] r.pc = "getService" ->
         Loaded(storage_getService(w, r.id), r, "resource", "Service not found",
                "getCompany")
    [] r.pc = "getCompany" -> LoadCompany(w, r, Field(r.resource, "companyId"))
    [] r.pc = "afterUser" ->
         IF NotOwner(r.company, r.dbUser)
         THEN Reply(w, r, 403, Msg("Not authorized to update this service"))
         ELSE LET result == safeParse("services", r.body, TRUE)
              IN IF ~result.success
                 THEN Reply(w, r, 400, Invalid("Invalid service data", result.errors))
                 ELSE Goto(w, [r EXCEPT !.data = result.data], "updateService")
    [] r.pc = "updateService" ->
         LET o  == storage_updateService(w, r.id, r.data)
             r1 == DidWrite(r)
         IN IF o.err THEN Fail(o.w, r1)
            ELSE Goto(o.w, [r1 EXCEPT !.updated = o.ret], "getServiceImages")
    [] r.pc = "getServiceImages" ->
         LET o  == storage_getServiceImages(w, r.id)
             r1 == DidRead(r)
             updatedService == IF IsUndefined(r.updated) THEN EmptyObj ELSE r.updated
         IN IF o.err THEN Fail(o.w, r1)
            ELSE Reply(o.w, r1, 200, Spread(updatedService, [images |-> Urls(o.ret)]))

\* storage.deleteService(id) is one awaited call; under DatabaseStorage it
\* awaits two statements in turn ("deleteService" then "deleteService_service")
DELETE_services_id(w, r) ==
  CASE r.pc = "entry" -> ParseId(w, r, "Invalid service ID", "getService")
    [] r.pc = "getService" ->
         Loaded(storage_getService(w, r.id), r, "resource", "Service not found",
                "getCompany")
    [] r.pc = "getCompany" -> LoadCompany(w, r, Field(r.resource, "companyId"))
    [] r.pc = "afterUser" ->
         IF NotOwner(r.company, r.dbUser)
         THEN Reply(w, r, 403, Msg("Not authorized to delete this service"))
         ELSE Goto(w, r, "deleteService")
    [] r.pc = "deleteService" ->
         IF w.backend = "db"
         THEN LET o  == DatabaseStorage_deleteService_images(w, r.id)
                  r1 == DidWrite(r)
              IN IF o.err THEN Fail(o.w, r1)
                 ELSE Goto(o.w, r1, "deleteService_service")
         ELSE Written(FirestoreStorage_deleteService(w, r.id), r, 200, Success)
    [] r.pc = "deleteService_service" ->
         LET o == DatabaseStorage_deleteService_service(w, r.id)
         IN IF o.err THEN Fail(o.w, r) ELSE Reply(o.w, r, 200, Success)

----------------------------------------------------------------------------
(* server/routes.ts: service image routes                                   *)

POST_services_images(w, r) ==
  CASE r.pc = "entry" -> ParseId(w, r, "Invalid service ID", "getService")
    [] r.pc = "getService" ->
         Loaded(storage_getService(w, r.id), r, "resource", "Service not found",
                "getCompany")
    [] r.pc = "getCompany" -> LoadCompany(w, r, Field(r.resource, "companyId"))
    [] r.pc = "afterUser" ->
         IF NotOwner(r.company, r.dbUser)
         THEN Reply(w, r, 403, Msg("Not authorized to add images to this service"))
         ELSE LET result == safeParse("serviceImages",
                                      [serviceId |-> r.id, url |-> Field(r.body, "url")],
                                      FALSE)
              IN IF ~result.success
                 THEN Reply(w, r, 400, Invalid("Invalid image data", result.errors))
                 ELSE Goto(w, [r EXCEPT !.data = result.data], "createServiceImage")
    [] r.pc = "createServiceImage" ->
         LET o == storage_createServiceImage(w, r.data, Str(r.uuids[2]))
         IN Written(o, r, 201, o.ret)

\* line 484 looks the image up with getServiceImages(imageId): the images
\* whose serviceId equals the image id in the path
DELETE_service_images_id(w, r) ==
  CASE r.pc = "entry" -> ParseId(w, r, "Invalid image ID", "getServiceImages")
    [] r.pc = "getServiceImages" ->
         LET o  == storage_getServiceImages(w, r.id)
             r1 == DidRead(r)
         IN IF o.err THEN Fail(o.w, r1)
            ELSE IF Cardinality(o.ret) = 0
            THEN Reply(o.w, r1, 404, Msg("Image not found"))
            ELSE Goto(o.w, [r1 EXCEPT !.image = First(o.ret)], "getService")
    [] r.pc = "getService" ->
         Loaded(storage_getService(w, Field(r.image, "serviceId")), r, "resource",
                "Service not found", "getCompany")
    [] r.pc = "getCompany" -> LoadCompany(w, r, Field(r.resource, "companyId"))
    [] r.pc = "afterUser" ->
         IF NotOwner(r.company, r.dbUser)
         THEN Reply(w, r, 403, Msg("Not authorized to delete this image"))
         ELSE Goto(w, r, "deleteServiceImage")
    [] r.pc = "deleteServiceImage" ->
         Written(storage_deleteServiceImage(w, r.id), r, 200, Success)

----------------------------------------------------------------------------
(* server/routes.ts: job offer routes                                       *)

GET_companies_job_offers(w, r) ==
  CASE r.pc = "entry" -> ParseId(w, r, "Invalid company ID", "getCompany")
    [] r.pc = "getCompany" -> LoadCompany(w, r, r.id)
    [] r.pc = "afterUser" ->
         IF NotOwner(r.company, r.dbUser)
         THEN Reply(w, r, 403, Msg("Not authorized to view job offers for this company"))
         ELSE Goto(w, r, "getCompanyJobOffers")
    [] r.pc = "getCompanyJobOffers" ->
         LET o  == storage_getCompanyJobOffers(w, r.id)
             r1 == DidRead(r)
         IN IF o.err THEN Fail(o.w, r1) ELSE Reply(o.w, r1, 200, [list |-> o.ret])

GET_job_offers_id(w, r) ==
  CASE r.pc = "entry" -> ParseId(w, r, "Invalid job offer ID", "getJobOffer")
    [] r.pc = "getJobOffer" ->
         Loaded(storage_getJobOffer(w, r.id), r, "resource", "Job offer not found",
                "getCompany")
    [] r.pc = "getCompany" -> LoadCompany(w, r, Field(r.resource, "companyId"))
    [] r.pc = "afterUser" ->
         IF NotOwner(r.company, r.dbUser)
         THEN Reply(w, r, 403, Msg("Not authorized to view this job offer"))
         ELSE Reply(w, r, 200, r.resource)

POST_companies_job_offers(w, r) ==
  CASE r.pc = "entry" -> ParseId(w, r, "Invalid company ID", "getCompany")
    [] r.pc = "getCompany" -> LoadCompany(w, r, r.id)
    [] r.pc = "afterUser" ->
         IF NotOwner(r.company, r.dbUser)
         THEN Reply(w, r, 403, Msg("Not authorized to create job offers for this company"))
         ELSE LET result == safeParse("jobOffers",
                                      Spread(r.body, [companyId |-> r.id]), FALSE)
              IN IF ~result.success
                 THEN Reply(w, r, 400, Invalid("Invalid job offer data", result.errors))
                 ELSE Goto(w, [r EXCEPT !.data = result.data], "createJobOffer")
    [] r.pc = "createJobOffer" ->
         LET o == storage_createJobOffer(w, r.data, Str(r.uuids[2]))
         IN Written(o, r, 201, o.ret)

PUT_job_offers_id(w, r) ==
  CASE r.pc = "entry" -> ParseId(w, r, "Invalid job offer ID", "getJobOffer")
    [] r.pc = "getJobOffer" ->
         Loaded(storage_getJobOffer(w, r.id), r, "resource", "Job offer not found",
                "getCompany")
    [] r.pc = "getCompany" -> LoadCompany(w, r, Field(r.resource, "companyId"))
    [] r.pc = "afterUser" ->
         IF NotOwner(r.company, r.dbUser)
         THEN Reply(w, r, 403, Msg("Not authorized to update this job offer"))
         ELSE LET result == safeParse("jobOffers", r.body, TRUE)
              IN IF ~result.success
                 THEN Reply(w, r, 400, Invalid("Invalid job offer data", result.errors))
                 ELSE Goto(w, [r EXCEPT !.data = result.data], "updateJobOffer")
    [] r.pc = "updateJobOffer" ->
         LET o == storage_updateJobOffer(w, r.id, r.data)
         IN Written(o, r, 200, o.ret)

DELETE_job_offers_id(w, r) ==
  CASE r.pc = "entry" -> ParseId(w, r, "Invalid job offer ID", "getJobOffer")
    [] r.pc = "getJobOffer" ->
         Loaded(storage_getJobOffer(w, r.id), r, "resource", "Job offer not found",
                "getCompany")
    [] r.pc = "getCompany" -> LoadCompany(w, r, Field(r.resource, "companyId"))
    [] r.pc = "afterUser" ->
         IF NotOwner(r.company, r.dbUser)
         THEN Reply(w, r, 403, Msg("Not authorized to delete this job offer"))
         ELSE Goto(w, r, "deleteJobOffer")
    [] r.pc = "deleteJobOffer" ->
         Written(storage_deleteJobOffer(w, r.id), r, 200, Success)

----------------------------------------------------------------------------
(* Express routing and the event loop                                       *)

Handler(w, r) ==
  CASE r.route = "GET /api/auth/me" -> GET_auth_me(w, r)
    [] r.route = "POST /api/user/settings" -> POST_user_settings(w, r)
    [] r.route = "GET /api/companies" -> GET_companies(w, r)
    [] r.route = "GET /api/companies/:id" -> GET_companies_id(w, r)
    [] r.route = "POST /api/companies" -> POST_companies(w, r)
    [] r.route = "PUT /api/companies/:id" -> PUT_companies_id(w, r)
    [] r.route = "GET /api/companies/:companyId/services" -> GET_companies_services(w, r)
    [] r.route = "GET /api/services/:id" -> GET_services_id(w, r)
    [] r.route = "POST /api/companies/:companyId/services" -> POST_companies_services(w, r)
    [] r.route = "PUT /api/services/:id" -> PUT_services_id(w, r)
    [] r.route = "DELETE /api/services/:id" -> DELETE_services_id(w, r)
    [] r.route = "POST /api/services/:serviceId/images" -> POST_services_images(w, r)
    [] r.route = "DELETE /api/service-images/:id" -> DELETE_service_images_id(w, r)
    [] r.route = "GET /api/companies/:companyId/job-offers" -> GET_companies_job_offers(w, r)
    [] r.route = "GET /api/job-offers/:id" -> GET_job_offers_id(w, r)
    [] r.route = "POST /api/companies/:companyId/job-offers" -> POST_companies_job_offers(w, r)
    [] r.route = "PUT /api/job-offers/:id" -> PUT_job_offers_id(w, r)
    [] r.route = "DELETE /api/job-offers/:id" -> DELETE_job_offers_id(w, r)

\* the handler resumes when the awaited call has settled, unless the request
\* is over or user resolution is itself waiting on its next call
Resume(o) ==
  IF o.r.pc \in UserPcs \cup {"done"} THEN o ELSE Handler(o.w, o.r)

\* the storage or provider call r is suspended at rejects (I/O error)
Rejects(r) == r.pc # "authenticate" /\ r.fault = 1

\* one awaited call fewer until the rejecting one
Counted(r) ==
  IF r.pc # "authenticate" /\ r.fault > 1 THEN [r EXCEPT !.fault = @ - 1] ELSE r

\* one turn of the event loop for request r: perform the call it awaits and
\* run it on to its next await or to its end; a rejected call lands in the
\* handler's catch block
Step(variant, w, r) ==
  IF Rejects(r) THEN Fail(w, [r EXCEPT !.fault = 0, !.failed = r.pc])
  ELSE Resume(IF r.pc = "authenticate" THEN [w |-> w, r |-> authenticate(variant, r)]
              ELSE IF r.pc \in UserPcs THEN getUserByFirebaseUid(w, Counted(r))
              ELSE [w |-> w, r |-> Counted(r)])

\* a request handled with no other request in between
RECURSIVE Run(_, _)
Run(variant, o) ==
  IF o.r.pc = "done" THEN o ELSE Run(variant, Step(variant, o.w, o.r))

----------------------------------------------------------------------------
(* What clients send                                                        *)

ValidHeaders ==
  {Header(<<"Bearer ", "tokA">>), Header(<<"Bearer ", "tokB">>),
   Header(<<"Bearer ", "tokC">>)}

BadHeaders ==
  {AbsentHeader, Header(<<"Basic ", "tokA">>), Header(<<"Bearer ">>),
   Header(<<"Bearer ", " ">>), Header(<<"Bearer ", "expired">>)}

Params == {"1", "2", "3", "abc"}
NoParam == {""}

NoBody == {EmptyObj}
CompanyBodies ==
  {[name |-> Str("Acme"), description |-> Str("d"), ownerId |-> Num(2),
    createdAt |-> Str("1999-01-01"), updatedAt |-> Str("1999-01-01")],
   [name |-> Str("Acme"), description |-> Str("d")],
   [name |-> Num(5), description |-> Str("d"), ownerId |-> Num(2)]}
CompanyPatches ==
  {[name |-> Str("Acme2"), updatedAt |-> Str("1999-01-01")],
   [ownerId |-> Num(2)], [name |-> Num(5)]}
ServiceBodies ==
  {[name |-> Str("Cut"), description |-> Str("d"), companyId |-> Num(2),
    createdAt |-> Str("1999-01-01")],
   [name |-> Str("Cut")]}
ServicePatches ==
  {[price |-> Str("20"), updatedAt |-> Str("1999-01-01")],
   [companyId |-> Num(2)], [name |-> Num(5)]}
ImageBodies == {[url |-> Str("u3")], EmptyObj}
JobOfferBodies ==
  {[title |-> Str("Dev"), description |-> Str("d"), employmentType |-> Str("full"),
    companyId |-> Num(2), updatedAt |-> Str("1999-01-01")],
   [title |-> Str("Dev")]}
SettingsBodies == {[uid |-> Str("uidB")], [theme |-> Str("dark")]}
JobOfferPatches ==
  {[salaryRange |-> Str("2000-2500")],
   [salaryRange |-> Str("2000-2500"), createdAt |-> Str("1999-01-01")],
   [companyId |-> Num(2)], [title |-> Null]}

\* requests with a usable header in full; one request for each unusable header
Inputs(params, bodies) ==
  {[hdr |-> h, param |-> p, body |-> b] :
     h \in ValidHeaders, p \in params, b \in bodies}
  \cup {[hdr |-> h, param |-> CHOOSE p \in params : TRUE,
         body |-> CHOOSE b \in bodies : TRUE] : h \in BadHeaders}

\* uuidv4() results available to one request
Uuids == <<"7c2e", "a3f1">>

----------------------------------------------------------------------------
(* Initial states                                                           *)

Slots == 1..2
NoCall == [op |-> "none"]

\* the store after A and B have each registered a company with a service;
\* B attached image 1 to service 2, A attached image 2 to service 1, and A
\* published a job offer (all at instant 1)
SeedStore ==
  LET t == Date(1)
  IN [users |->
        {[id |-> Num(1), uid |-> Str("uidA"), email |-> Str("a@rbg.pt"),
          displayName |-> Str("Ana"), photoURL |-> Str("https://img/ana.png"),
          createdAt |-> t, updatedAt |-> t],
         [id |-> Num(2), uid |-> Str("uidB"), email |-> Str(""),
          displayName |-> Str("Bruno"), photoURL |-> Null,
          createdAt |-> t, updatedAt |-> t]},
      companies |->
        {[id |-> Num(k), name |-> Str("Acme"), description |-> Str("d"),
          cnpj |-> Null, address |-> Null, phone |-> Null, website |-> Null,
          ownerId |-> Num(k), createdAt |-> t, updatedAt |-> t] : k \in 1..2},
      services |->
        {[id |-> Num(k), name |-> Str("Cut"), description |-> Str("d"),
          price |-> Null, workingHours |-> Null, companyId |-> Num(k),
          createdAt |-> t, updatedAt |-> t] : k \in 1..2},
      serviceImages |->
        {[id |-> Num(1), serviceId |-> Num(2), url |-> Str("u1"), createdAt |-> t],
         [id |-> Num(2), serviceId |-> Num(1), url |-> Str("u2"), createdAt |-> t]},
      jobOffers |->
        {[id |-> Num(1), title |-> Str("Dev"), description |-> Str("d"),
          employmentType |-> Str("full"), salaryRange |-> Null,
          requirements |-> Null, contactEmail |-> Null, contactLink |-> Null,
          companyId |-> Num(1), createdAt |-> t, updatedAt |-> t]},
      serial |-> [users |-> 2, companies |-> 2, services |-> 2,
                  serviceImages |-> 2, jobOffers |-> 1]]

\* A and B have signed in once and have registered nothing yet
UsersOnly ==
  [EmptyStore EXCEPT !.users = SeedStore.users, !.serial.users = 2]

\* A alone has used the application: A's company with a service and a job
\* offer; B has never made a request
OwnerOnly ==
  [SeedStore EXCEPT
     !.users = {u \in @ : u.id = Num(1)},
     !.companies = {c \in @ : c.id = Num(1)},
     !.services = {sv \in @ : sv.id = Num(1)},
     !.serviceImages = {},
     !.serial = [users |-> 1, companies |-> 1, services |-> 1,
                 serviceImages |-> 0, jobOffers |-> 1]]

Init ==
  /\ backend = "db"
  /\ authVariant \in {1, 2}
  /\ store \in {EmptyStore, UsersOnly, OwnerOnly, SeedStore}
  /\ profiles = InitialProfiles
  /\ now = 1
  /\ nwrites = 0
  /\ reqs = [s \in Slots |-> Idle]
  /\ call = NoCall
  /\ fault = 0
  /\ client = NoClient

----------------------------------------------------------------------------
(* Spec: one request at a time                                              *)

\* the effects of a finished request o.r, within the write budget
Commit(o) ==
  /\ nwrites + o.r.writes <= MaxWrites
  /\ store' = o.w.store
  /\ profiles' = o.w.profiles
  /\ nwrites' = nwrites + o.r.writes
  /\ reqs' = [reqs EXCEPT ![1] = o.r]

\* a request arrives on the free slot 1 and is handled to its end
Serve(route, inputs) ==
  /\ \E in \in inputs :
       Commit(Run(authVariant,
                  [w |-> World,
                   r |-> NewRequest(route, in.hdr, in.param, in.body, Uuids, store)]))
  /\ UNCHANGED <<backend, authVariant, now, call, fault, client>>

GetMe ==
  /\ reqs[1].pc = "idle"
  /\ Serve("GET /api/auth/me", Inputs(NoParam, NoBody))

PostSettings ==
  /\ reqs[1].pc = "idle"
  /\ Serve("POST /api/user/settings", Inputs(NoParam, SettingsBodies))

GetCompanies ==
  /\ reqs[1].pc = "idle"
  /\ Serve("GET /api/companies", Inputs(NoParam, NoBody))

GetCompany ==
  /\ reqs[1].pc = "idle"
  /\ Serve("GET /api/companies/:id", Inputs(Params, NoBody))

PostCompany ==
  /\ reqs[1].pc = "idle"
  /\ Serve("POST /api/companies", Inputs(NoParam, CompanyBodies))

PutCompany ==
  /\ reqs[1].pc = "idle"
  /\ Serve("PUT /api/companies/:id", Inputs(Params, CompanyPatches))

GetCompanyServices ==
  /\ reqs[1].pc = "idle"
  /\ Serve("GET /api/companies/:companyId/services", Inputs(Params, NoBody))

GetService ==
  /\ reqs[1].pc = "idle"
  /\ Serve("GET /api/services/:id", Inputs(Params, NoBody))

PostService ==
  /\ reqs[1].pc = "idle"
  /\ Serve("POST /api/companies/:companyId/services", Inputs(Params, ServiceBodies))

PutService ==
  /\ reqs[1].pc = "idle"
  /\ Serve("PUT /api/services/:id", Inputs(Params, ServicePatches))

DeleteService ==
  /\ reqs[1].pc = "idle"
  /\ Serve("DELETE /api/services/:id", Inputs(Params, NoBody))

PostServiceImage ==
  /\ reqs[1].pc = "idle"
  /\ Serve("POST /api/services/:serviceId/images", Inputs(Params, ImageBodies))

DeleteServiceImage ==
  /\ reqs[1].pc = "idle"
  /\ Serve("DELETE /api/service-images/:id", Inputs(Params, NoBody))

GetCompanyJobOffers ==
  /\ reqs[1].pc = "idle"
  /\ Serve("GET /api/companies/:companyId/job-offers", Inputs(Params, NoBody))

GetJobOffer ==
  /\ reqs[1].pc = "idle"
  /\ Serve("GET /api/job-offers/:id", Inputs(Params, NoBody))

PostJobOffer ==
  /\ reqs[1].pc = "idle"
  /\ Serve("POST /api/companies/:companyId/job-offers", Inputs(Params, JobOfferBodies))

PutJobOffer ==
  /\ reqs[1].pc = "idle"
  /\ Serve("PUT /api/job-offers/:id", Inputs(Params, JobOfferPatches))

DeleteJobOffer ==
  /\ reqs[1].pc = "idle"
  /\ Serve("DELETE /api/job-offers/:id", Inputs(Params, NoBody))

\* the response has reached the client; the connection is free again
Deliver ==
  /\ reqs[1].pc = "done"
  /\ reqs' = [reqs EXCEPT ![1] = Idle]
  /\ UNCHANGED <<backend, authVariant, store, profiles, now, nwrites, call, fault, client>>

\* time passes between requests
Tick ==
  /\ \A s \in Slots : reqs[s].pc = "idle"
  /\ now < MaxClock
  /\ now' = now + 1
  /\ UNCHANGED <<backend, authVariant, store, profiles, nwrites, reqs, call, fault, client>>

Next ==
  \/ GetMe \/ PostSettings
  \/ GetCompanies \/ GetCompany \/ PostCompany \/ PutCompany
  \/ GetCompanyServices \/ GetService \/ PostService \/ PutService
  \/ DeleteService \/ PostServiceImage \/ DeleteServiceImage
  \/ GetCompanyJobOffers \/ GetJobOffer \/ PostJobOffer \/ PutJobOffer
  \/ DeleteJobOffer \/ Deliver \/ Tick

Spec == Init /\ [][Next]_vars

----------------------------------------------------------------------------
(* SpecFault: as Spec, but the fault-th awaited storage or provider call of *)
(* every request rejects                                                    *)

InitFault ==
  /\ backend = "db"
  /\ authVariant = 1
  /\ store \in {EmptyStore, OwnerOnly, SeedStore}
  /\ profiles = InitialProfiles
  /\ now = 1
  /\ nwrites = 0
  /\ reqs = [s \in Slots |-> Idle]
  /\ call = NoCall
  /\ fault \in 1..MaxFault
  /\ client = NoClient

SpecFault == InitFault /\ [][Next]_vars

----------------------------------------------------------------------------
(* SpecConc: two connections whose requests interleave at their awaits      *)

\* what uuidv4() returns to the request on slot s
UuidsOf(s) == IF s = 1 THEN <<"7c2e", "a3f1">> ELSE <<"b9d0", "e5a7">>

ConcHeaders == {Header(<<"Bearer ", "tokA">>), Header(<<"Bearer ", "tokB">>)}

\* the profile store after A's POST /api/user/settings with {uid: "uidB"}
RetaggedProfiles ==
  updateUserData([backend |-> "db", now |-> 1, store |-> EmptyStore,
                  profiles |-> InitialProfiles],
                 Str("uidA"), [uid |-> Str("uidB")]).w.profiles

InitConc ==
  /\ \E cfg \in {<<"db", EmptyStore>>, <<"db", UsersOnly>>, <<"fs", EmptyStore>>} :
       backend = cfg[1] /\ store = cfg[2]
  /\ authVariant = 1
  /\ profiles \in {InitialProfiles, RetaggedProfiles}
  /\ now = 1
  /\ nwrites = 0
  /\ reqs = [s \in Slots |-> Idle]
  /\ call = NoCall
  /\ fault = 0
  /\ client = NoClient

\* a request arrives on a free connection; its handler has not run yet
Arrive(s, route, h, body) ==
  /\ reqs' = [reqs EXCEPT ![s] = NewRequest(route, h, "", body, UuidsOf(s), store)]
  /\ UNCHANGED <<backend, authVariant, store, profiles, now, nwrites, call, fault, client>>

ArrivePostCompany ==
  \E s \in Slots : \E h \in ConcHeaders :
    /\ reqs[s].pc = "idle"
    /\ Arrive(s, "POST /api/companies", h,
              [name |-> Str("Acme"), description |-> Str("d"), ownerId |-> Num(2),
               createdAt |-> Str("1999-01-01")])

ArriveGetCompanies ==
  \E s \in Slots : \E h \in ConcHeaders :
    /\ reqs[s].pc = "idle"
    /\ Arrive(s, "GET /api/companies", h, EmptyObj)

\* the effects of one turn of the event loop for the request on slot s
Turn(s, o) ==
  /\ store' = o.w.store
  /\ profiles' = o.w.profiles
  /\ nwrites' = nwrites + o.r.writes - reqs[s].writes
  /\ reqs' = [reqs EXCEPT ![s] = o.r]

\* the call some pending request awaits settles and its handler runs on
Advance ==
  /\ \E s \in Slots :
       /\ reqs[s].pc \notin {"idle", "done"}
       /\ Turn(s, Step(authVariant, World, reqs[s]))
  /\ UNCHANGED <<backend, authVariant, now, call, fault, client>>

NextConc == ArrivePostCompany \/ ArriveGetCompanies \/ Advance

SpecConc == InitConc /\ [][NextConc]_vars

----------------------------------------------------------------------------
(* SpecStorage: the IStorage methods of either adapter, called directly     *)

\* a Firestore database holding one company with a service, an image of it
\* and a job offer, as the adapter's create methods leave them
FsSeedStore ==
  LET t == Iso(1)
  IN [EmptyStore EXCEPT
        !.companies = {[id |-> Str("a3f1"), name |-> Str("Acme"),
                        description |-> Str("d"), ownerId |-> Str("uidA"),
                        createdAt |-> t, updatedAt |-> t]},
        !.services = {[id |-> Str("7c2e"), name |-> Str("Cut"),
                       description |-> Str("d"), companyId |-> Str("a3f1"),
                       createdAt |-> t, updatedAt |-> t]},
        !.serviceImages = {[id |-> Str("b9d0"), serviceId |-> Str("7c2e"),
                            url |-> Str("u1"), createdAt |-> t]},
        !.jobOffers = {[id |-> Str("e5a7"), title |-> Str("Dev"),
                        description |-> Str("d"), employmentType |-> Str("full"),
                        companyId |-> Str("a3f1"),
                        createdAt |-> t, updatedAt |-> t]}]

InitStorage ==
  /\ \E cfg \in {<<"db", SeedStore>>, <<"db", EmptyStore>>,
                  <<"fs", FsSeedStore>>, <<"fs", EmptyStore>>} :
       backend = cfg[1] /\ store = cfg[2]
  /\ authVariant = 1
  /\ profiles = InitialProfiles
  /\ now = 1
  /\ nwrites = 0
  /\ reqs = [s \in Slots |-> Idle]
  /\ call = NoCall
  /\ fault = 0
  /\ client = NoClient

\* the ids a caller may pass to the adapter in use
Ids ==
  IF backend = "db" THEN {Num(1), Num(2), Num(3)}
  ELSE {Str("7c2e"), Str("a3f1"), Str("b9d0"), Str("e5a7")}

\* method op was called with arg and settled as o
Called(op, arg, o, writes) ==
  /\ nwrites + writes <= MaxWrites
  /\ nwrites' = nwrites + writes
  /\ store' = o.w.store
  /\ call' = [op |-> op, arg |-> arg, err |-> o.err, ret |-> o.ret]
  /\ UNCHANGED <<backend, authVariant, profiles, now, reqs, fault, client>>

CallUpdateCompany ==
  \E id \in Ids :
    Called("updateCompany", [id |-> id, patch |-> [name |-> Str("Acme2")]],
           storage_updateCompany(World, id, [name |-> Str("Acme2")]), 1)
CallGetService ==
  \E id \in Ids : Called("getService", id, storage_getService(World, id), 0)
CallCreateService ==
  \E c \in Ids : \E u \in {"b9d0", "e5a7"} :
    Called("createService",
           [name |-> Str("Dye"), description |-> Str("d"), companyId |-> c],
           storage_createService(World,
             [name |-> Str("Dye"), description |-> Str("d"), companyId |-> c],
             Str(u)), 1)
CallDeleteService ==
  \E id \in Ids : Called("deleteService", id, storage_deleteService(World, id), 1)
CallGetServiceImages ==
  \E id \in Ids :
    Called("getServiceImages", id, storage_getServiceImages(World, id), 0)
CallCreateServiceImage ==
  \E sv \in Ids : \E u \in {"a3f1", "e5a7"} :
    Called("createServiceImage", [serviceId |-> sv, url |-> Str("u3")],
           storage_createServiceImage(World,
             [serviceId |-> sv, url |-> Str("u3")], Str(u)), 1)
CallDeleteServiceImage ==
  \E id \in Ids :
    Called("deleteServiceImage", id, storage_deleteServiceImage(World, id), 1)
CallGetJobOffer ==
  \E id \in Ids : Called("getJobOffer", id, storage_getJobOffer(World, id), 0)
CallUpdateJobOffer ==
  \E id \in Ids : \E patch \in {[salaryRange |-> Str("2000-2500")], EmptyObj} :
    Called("updateJobOffer", [id |-> id, patch |-> patch],
           storage_updateJobOffer(World, id, patch), 1)

\* time passes between calls
TickStorage ==
  /\ now < MaxClock
  /\ now' = now + 1
  /\ UNCHANGED <<backend, authVariant, store, profiles, nwrites, reqs, call, fault, client>>

NextStorage ==
  \/ CallUpdateCompany
  \/ CallGetService \/ CallCreateService \/ CallDeleteService
  \/ CallGetServiceImages \/ CallCreateServiceImage \/ CallDeleteServiceImage
  \/ CallGetJobOffer \/ CallUpdateJobOffer \/ TickStorage

SpecStorage == InitStorage /\ [][NextStorage]_vars

----------------------------------------------------------------------------
(* SpecRace: an image upload and the deletion of a service, interleaved at  *)
(* their awaits, over either adapter.                                       *)

InitRace ==
  /\ \E cfg \in {<<"db", SeedStore>>, <<"fs", FsSeedStore>>} :
       backend = cfg[1] /\ store = cfg[2]
  /\ authVariant = 1
  /\ profiles = InitialProfiles
  /\ now = 1
  /\ nwrites = 0
  /\ reqs = [s \in Slots |-> Idle]
  /\ call = NoCall
  /\ fault = 0
  /\ client = NoClient

\* the service ids sent in the path
RaceParams == {"1", "2"}

ArriveAt(s, route, h, param, body) ==
  /\ reqs' = [reqs EXCEPT ![s] = NewRequest(route, h, param, body, UuidsOf(s), store)]
  /\ UNCHANGED <<backend, authVariant, store, profiles, now, nwrites, call, fault, client>>

ArrivePostImage ==
  \E s \in Slots : \E h \in ConcHeaders : \E p \in RaceParams :
    /\ reqs[s].pc = "idle"
    /\ ArriveAt(s, "POST /api/services/:serviceId/images", h, p, [url |-> Str("u3")])

ArriveDeleteService ==
  \E s \in Slots : \E h \in ConcHeaders : \E p \in RaceParams :
    /\ reqs[s].pc = "idle"
    /\ ArriveAt(s, "DELETE /api/services/:id", h, p, EmptyObj)

\* the call some pending request awaits settles and its handler runs on
AdvanceRace ==
  /\ \E s \in Slots :
       /\ reqs[s].pc \notin {"idle", "done"}
       /\ Turn(s, Step(authVariant, World, reqs[s]))
  /\ UNCHANGED <<backend, authVariant, now, call, fault, client>>

NextRace == ArrivePostImage \/ ArriveDeleteService \/ AdvanceRace

SpecRace == InitRace /\ [][NextRace]_vars

----------------------------------------------------------------------------
(* The browser application.  Its drivers leave the server at rest.          *)

serverVars == <<backend, authVariant, store, profiles, now, nwrites, reqs, call, fault>>

ServerAtRest ==
  /\ backend = "db"
  /\ authVariant = 1
  /\ store = EmptyStore
  /\ profiles = InitialProfiles
  /\ now = 1
  /\ nwrites = 0
  /\ reqs = [s \in Slots |-> Idle]
  /\ call = NoCall
  /\ fault = 0

----------------------------------------------------------------------------
(* client lib/firebase (unnamed/part_007): deleteService, and its caller    *)
(* confirmDelete of pages/services.tsx.  A download URL is the sequence of  *)
(* its lexemes; a storage path is the sequence of lexemes left of it.       *)

MaxImages == 2       \* images a service document lists

\* s.split(sep): the pieces of s between the occurrences of sep
RECURSIVE SplitAt(_, _)
SplitAt(s, sep) ==
  IF \A i \in 1..Len(s) : s[i] # sep THEN <<s>>
  ELSE LET k == CHOOSE i \in 1..Len(s) :
                  s[i] = sep /\ \A j \in 1..(i - 1) : s[j] # sep
       IN <<SubSeq(s, 1, k - 1)>> \o SplitAt(SubSeq(s, k + 1, Len(s)), sep)

\* s.replace(/%2F/g, '/')
ReplaceSlashes(s) == [i \in 1..Len(s) |-> IF s[i] = "%2F" THEN "/" ELSE s[i]]

\* decodeURIComponent(s): throws URIError on a stray '%'
decodeURIComponent(s) ==
  IF \E i \in 1..Len(s) : s[i] = "%" THEN [err |-> TRUE, ret |-> <<>>]
  ELSE [err |-> FALSE,
        ret |-> [i \in 1..Len(s) |-> IF s[i] = "%20" THEN " " ELSE s[i]]]

\* imageUrl.split('?')[0].split('/o/')[1].replace(/%2F/g, '/'), decoded:
\* split('/o/')[1] is undefined when the URL has no '/o/', and .replace throws
ImagePath(imageUrl) ==
  LET parts == SplitAt(SplitAt(imageUrl, "?")[1], "/o/")
  IN IF Len(parts) < 2 THEN [err |-> TRUE, ret |-> <<>>]
     ELSE decodeURIComponent(ReplaceSlashes(parts[2]))

DownloadUrl(name) ==
  <<"https://fs/v0/b/rbg", "/o/", "services", "%2F", name, "?", "alt=media">>

DownloadUrls ==
  {DownloadUrl("a.png"), DownloadUrl("b%20c.png"), <<"https://cdn/x.png">>}

\* the values the images field of a service document takes
ImageLists ==
  UNION {[1..n -> DownloadUrls] : n \in 0..MaxImages}

\* the service documents deleteService may meet: none, one without an images
\* field, one with a list of images
ServiceDocs ==
  {[id |-> "s1"]} \cup {[id |-> "s1", images |-> l] : l \in ImageLists}

StoredFiles == {<<"services", "/", "a.png">>, <<"services", "/", "b c.png">>}

\* confirmDelete (services.tsx): deleteService awaited, then the page state
ClientDelete(docs, files) ==
  [scene |-> "deleteService", pc |-> "getServiceById", serviceToDelete |-> "s1",
   docs |-> docs, files |-> files, pre |-> [docs |-> docs, files |-> files],
   service |-> Undefined, rest |-> <<>>, log |-> <<>>, outcome |-> "",
   services |-> {"s1", "s2"}, toast |-> "", isDeleting |-> TRUE]

\* the inner try left out: a failed image deletion reaches the outer catch
ImageDeleteRethrown(c) == [c EXCEPT !.outcome = "thrown", !.pc = "returned"]

\* the inner catch: logs and goes on with the next image
ImageDeleteFailed(c) ==
  [c EXCEPT !.rest = Tail(@), !.log = Append(@, "failed"),
            !.pc = IF Len(c.rest) = 1 THEN "returned" ELSE "deleteObject"]

\* the outer catch: logs and rethrows
ServiceDeleteFailed(c) == [c EXCEPT !.outcome = "thrown", !.pc = "returned"]

\* const service = await getServiceById(serviceId)
getServiceById(c, ok) ==
  IF ~ok THEN ServiceDeleteFailed(c)
  ELSE LET hit == {d \in c.docs : d.id = c.serviceToDelete}
       IN [c EXCEPT !.service = IF hit = {} THEN Null ELSE CHOOSE d \in hit : TRUE,
                    !.pc = "deleteDoc"]

\* await deleteDoc(doc(db, 'services', serviceId)), then the images test
deleteDoc(c, ok) ==
  IF ~ok THEN ServiceDeleteFailed(c)
  ELSE LET has == /\ "images" \in DOMAIN c.service
                  /\ Len(c.service.images) > 0
       IN [c EXCEPT !.docs = {d \in @ : d.id # c.serviceToDelete},
                    !.rest = IF has THEN c.service.images ELSE <<>>,
                    !.outcome = IF has THEN "" ELSE "true",
                    !.pc = IF has THEN "deleteObject" ELSE "returned"]

\* one turn of the for loop: the path of the image, then deleteObject, which
\* rejects for an object that is not stored
deleteObject(c, ok) ==
  LET path == ImagePath(Head(c.rest))
      done == IF Len(c.rest) = 1
              THEN [c EXCEPT !.outcome = "true"] ELSE c
  IN IF path.err \/ ~ok \/ path.ret \notin c.files
     THEN ImageDeleteFailed(done)
     ELSE [done EXCEPT !.files = @ \ {path.ret}, !.rest = Tail(@),
                       !.log = Append(@, "deleted"),
                       !.pc = IF Len(c.rest) = 1 THEN "returned"
                              ELSE "deleteObject"]

\* confirmDelete after the await: list and toast, then the finally block
confirmDelete(c) ==
  [c EXCEPT !.services = IF c.outcome = "true"
                         THEN {x \in @ : x # c.serviceToDelete} ELSE @,
            !.toast = IF c.outcome = "true" THEN "Sucesso" ELSE "Erro",
            !.isDeleting = FALSE, !.serviceToDelete = Null, !.pc = "done"]

InitDelete ==
  /\ ServerAtRest
  /\ \E docs \in {{}} \cup {{d} : d \in ServiceDocs} :
       \E files \in SUBSET StoredFiles :
         client = ClientDelete(docs, files)

StepGetServiceById ==
  /\ client.scene = "deleteService" /\ client.pc = "getServiceById"
  /\ \E ok \in BOOLEAN : client' = getServiceById(client, ok)
  /\ UNCHANGED serverVars

StepDeleteDoc ==
  /\ client.scene = "deleteService" /\ client.pc = "deleteDoc"
  /\ \E ok \in BOOLEAN : client' = deleteDoc(client, ok)
  /\ UNCHANGED serverVars

StepDeleteObject ==
  /\ client.scene = "deleteService" /\ client.pc = "deleteObject"
  /\ \E ok \in BOOLEAN : client' = deleteObject(client, ok)
  /\ UNCHANGED serverVars

StepConfirmDelete ==
  /\ client.scene = "deleteService" /\ client.pc = "returned"
  /\ client' = confirmDelete(client)
  /\ UNCHANGED serverVars

NextDelete ==
  \/ StepGetServiceById \/ StepDeleteDoc \/ StepDeleteObject
  \/ StepConfirmDelete

SpecDelete == InitDelete /\ [][NextDelete]_vars

----------------------------------------------------------------------------
(* client lib/api-fixed.ts: fetchWithAuth.  `requests` is what went out on  *)
(* the wire through fetch(), in order.                                      *)

\* what getIdToken(true) resolves to; "" is a token that is falsy
IdTokens == {"t1", "t2", ""}
Statuses == {200, 401, 500}
FetchUrls == {<<"/api/companies">>, <<"http", "://api.rbg.pt/api/companies">>}
Methods == {"GET", "POST"}
VITE_API_BASE_URL == <<"https://rbg.pt">>

\* url.startsWith('http') ? url : `${VITE_API_BASE_URL || ''}${url}`
fullUrl(url) == IF url[1] = "http" THEN url ELSE VITE_API_BASE_URL \o url

\* fetch(fullUrl, {...options, headers, credentials})
Request(c, token) ==
  [url |-> fullUrl(c.url), method |-> c.options.method,
   Authorization |-> <<"Bearer ", token>>, credentials |-> "include"]

ClientFetch(url, options, currentUser) ==
  [scene |-> "fetchWithAuth", pc |-> "entry", url |-> url, options |-> options,
   currentUser |-> currentUser, token |-> "", requests |-> <<>>,
   response |-> 0, outcome |-> "", returned |-> 0]

\* catch (error) { throw error }
Rethrown(c) == [c EXCEPT !.outcome = "thrown", !.pc = "done"]

\* if (!auth.currentUser) throw; else await currentUser.getIdToken(true)
fetchWithAuth_entry(c) ==
  IF ~c.currentUser THEN Rethrown(c) ELSE [c EXCEPT !.pc = "getIdToken"]

\* the token arrived (ok) or getIdToken rejected; if (!token) throw
fetchWithAuth_token(c, ok, token) ==
  IF ~ok \/ token = "" THEN Rethrown(c)
  ELSE [c EXCEPT !.token = token, !.requests = Append(@, Request(c, token)),
                 !.pc = "fetch"]

\* the tokens not compared: a retry whenever a token came back
RetriesWhatever(c, token, newToken) == newToken # ""

\* if (newToken && newToken !== token)
Retries(c, token, newToken) == newToken # "" /\ newToken # token

\* const newToken = await auth.currentUser?.getIdToken(true): undefined when
\* the user is gone, a rejection is rethrown, a different token is sent
fetchWithAuth_refreshed(c, ok, newToken) ==
  IF ~c.currentUser THEN [c EXCEPT !.outcome = "first", !.returned = c.response,
                                   !.pc = "done"]
  ELSE IF ~ok THEN Rethrown(c)
  ELSE IF Retries(c, c.token, newToken)
       THEN [c EXCEPT !.requests = Append(@, Request(c, newToken)),
                      !.pc = "refetch"]
  ELSE [c EXCEPT !.outcome = "first", !.returned = c.response, !.pc = "done"]

\* the first response arrived (ok) or fetch rejected; a 401 asks for a new
\* token through auth.currentUser?.getIdToken(true)
fetchWithAuth_response(c, ok, status) ==
  IF ~ok THEN Rethrown(c)
  ELSE IF status = 401 THEN [c EXCEPT !.response = status, !.pc = "refresh"]
  ELSE [c EXCEPT !.response = status, !.outcome = "first",
                 !.returned = status, !.pc = "done"]

\* return fetch(...): the promise of the second fetch is the result
fetchWithAuth_second(c, ok, status) ==
  IF ~ok THEN [c EXCEPT !.outcome = "rejected", !.pc = "done"]
  ELSE [c EXCEPT !.outcome = "second", !.returned = status, !.pc = "done"]

InitFetch ==
  /\ ServerAtRest
  /\ \E url \in FetchUrls : \E mt \in Methods : \E u \in BOOLEAN :
       client = ClientFetch(url, [method |-> mt], u)

Fetching(pc) == client.scene = "fetchWithAuth" /\ client.pc = pc

FetchEntry ==
  /\ Fetching("entry")
  /\ client' = fetchWithAuth_entry(client)
  /\ UNCHANGED serverVars

FetchToken ==
  /\ Fetching("getIdToken")
  /\ \E ok \in BOOLEAN : \E t \in IdTokens :
       client' = fetchWithAuth_token(client, ok, t)
  /\ UNCHANGED serverVars

FetchResponse ==
  /\ Fetching("fetch")
  /\ \E ok \in BOOLEAN : \E st \in Statuses :
       client' = fetchWithAuth_response(client, ok, st)
  /\ UNCHANGED serverVars

FetchRefreshed ==
  /\ Fetching("refresh")
  /\ \E ok \in BOOLEAN : \E t \in IdTokens :
       client' = fetchWithAuth_refreshed(client, ok, t)
  /\ UNCHANGED serverVars

FetchSecond ==
  /\ Fetching("refetch")
  /\ \E ok \in BOOLEAN : \E st \in Statuses :
       client' = fetchWithAuth_second(client, ok, st)
  /\ UNCHANGED serverVars

\* the user signs out in another tab while a call is awaited
SignedOut ==
  /\ client.scene = "fetchWithAuth"
  /\ client.pc \in {"fetch", "refresh"}
  /\ client.currentUser
  /\ client' = [client EXCEPT !.currentUser = FALSE]
  /\ UNCHANGED serverVars

NextFetch ==
  \/ FetchEntry \/ FetchToken \/ FetchResponse \/ FetchRefreshed
  \/ FetchSecond \/ SignedOut

SpecFetch == InitFetch /\ [][NextFetch]_vars

----------------------------------------------------------------------------
(* client App (unnamed/part_009) under AuthProvider (hooks/use-auth.tsx).   *)
(* A location is the sequence of its path segments.  A state update and the *)
(* render it causes are one step (React commits them together); the         *)
(* useEffect of the mounted route runs as a step of its own afterwards.     *)

MaxPending == 2      \* onAuthStateChanged callbacks awaiting getUserData

\* <Switch>: the routes in order, with the wrapper and the page of each
Routes ==
  <<[path |-> <<"login">>,           wrap |-> "AuthRoute",      page |-> "Login"],
    [path |-> <<"register">>,        wrap |-> "AuthRoute",      page |-> "Register"],
    [path |-> <<"forgot-password">>, wrap |-> "AuthRoute",      page |-> "ForgotPassword"],
    [path |-> <<"dashboard">>,       wrap |-> "ProtectedRoute", page |-> "Dashboard"],
    [path |-> <<"profile">>,         wrap |-> "ProtectedRoute", page |-> "Profile"],
    [path |-> <<"settings">>,        wrap |-> "ProtectedRoute", page |-> "Settings"],
    [path |-> <<"company-profile">>, wrap |-> "ProtectedRoute", page |-> "CompanyProfile"],
    [path |-> <<"services">>,        wrap |-> "ProtectedRoute", page |-> "Services"],
    [path |-> <<"service", ":id">>,  wrap |-> "ProtectedRoute", page |-> "ServicePage"],
    [path |-> <<"job-offers">>,      wrap |-> "ProtectedRoute", page |-> "JobOffers"],
    [path |-> <<"job-offer", ":id">>, wrap |-> "ProtectedRoute", page |-> "JobOfferPage"],
    [path |-> <<>>,                  wrap |-> "AuthRoute",      page |-> "Login"]>>

\* <Route component={NotFound} />
Fallback == [path |-> <<"*">>, wrap |-> "none", page |-> "NotFound"]

\* wouter: a pattern matches a location segment by segment, :id any segment
Matches(pattern, location) ==
  /\ Len(pattern) = Len(location)
  /\ \A i \in 1..Len(pattern) : pattern[i] = ":id" \/ pattern[i] = location[i]

\* the first route of the Switch that matches
Match(location) ==
  LET hits == {i \in 1..Len(Routes) : Matches(Routes[i].path, location)}
  IN IF hits = {} THEN Fallback
     ELSE Routes[CHOOSE i \in hits : \A j \in hits : i <= j]

\* the pages reached by address bar or link
Locations ==
  {<<"login">>, <<"register">>, <<"dashboard">>, <<"services">>,
   <<"service", "1">>, <<"service", "2">>, <<>>, <<"nowhere">>}

FirebaseUsers == {Null, Str("uidA"), Str("uidB")}

\* a wrapper that does not wait for loading
ShowsWithoutWaiting(wrap, page, user, loading) ==
  CASE wrap = "ProtectedRoute" -> IF ~IsNull(user) THEN page ELSE "null"
    [] wrap = "AuthRoute"      -> IF IsNull(user) THEN page ELSE "null"
    [] OTHER                   -> page

\* what ProtectedRoute / AuthRoute return
Shows(wrap, page, user, loading) ==
  CASE wrap = "none" -> page
    [] loading -> "spinner"
    [] wrap = "ProtectedRoute" -> IF ~IsNull(user) THEN page ELSE "null"
    [] wrap = "AuthRoute"      -> IF IsNull(user) THEN page ELSE "null"

\* commit: the element on screen for the state, and whether the effect of
\* the wrapper is due (on mount, or when user or loading changed)
Rendered(old, c) ==
  LET m == Match(c.location)
  IN [c EXCEPT !.view = Shows(m.wrap, m.page, c.user, c.loading),
               !.effect = \/ old.effect
                          \/ Match(old.location) # m
                          \/ old.user # c.user
                          \/ old.loading # c.loading]

ClientRouter(location) ==
  LET m == Match(location)
  IN [scene |-> "router", location |-> location, user |-> Null,
      userData |-> Null, loading |-> TRUE, pending |-> <<>>,
      view |-> Shows(m.wrap, m.page, Null, TRUE), effect |-> TRUE]

\* onAuthStateChanged callback up to its await: setUser, and for no user
\* setUserData(null) and setLoading(false)
onAuthStateChanged(c, firebaseUser) ==
  Rendered(c,
    IF IsNull(firebaseUser)
    THEN [c EXCEPT !.user = Null, !.userData = Null, !.loading = FALSE]
    ELSE [c EXCEPT !.user = firebaseUser,
                   !.pending = Append(@, firebaseUser)])

\* getUserData settled for the i-th waiting callback: setUserData on
\* success, then setLoading(false)
userDataSettled(c, i, ok) ==
  Rendered(c,
    [c EXCEPT !.userData = IF ok THEN [uid |-> c.pending[i]] ELSE @,
              !.loading = FALSE,
              !.pending = SubSeq(@, 1, i - 1) \o SubSeq(@, i + 1, Len(@))])

\* the address changes (link, address bar, navigate())
navigate(c, location) == Rendered(c, [c EXCEPT !.location = location])

\* useEffect of the mounted wrapper
useEffect(c) ==
  LET m    == Match(c.location)
      done == [c EXCEPT !.effect = FALSE]
  IN IF m.wrap = "ProtectedRoute" /\ ~c.loading /\ IsNull(c.user)
     THEN Rendered(done, [done EXCEPT !.location = <<"login">>])
     ELSE IF m.wrap = "AuthRoute" /\ ~c.loading /\ ~IsNull(c.user)
     THEN Rendered(done, [done EXCEPT !.location = <<"dashboard">>])
     ELSE done

InitRouter ==
  /\ ServerAtRest
  /\ \E l \in Locations : client = ClientRouter(l)

Routing == client.scene = "router"

AuthStateChanged ==
  /\ Routing
  /\ Len(client.pending) < MaxPending
  /\ \E u \in FirebaseUsers :
       /\ client.loading \/ u # client.user
       /\ client' = onAuthStateChanged(client, u)
  /\ UNCHANGED serverVars

UserDataSettled ==
  /\ Routing
  /\ \E i \in 1..Len(client.pending) : \E ok \in BOOLEAN :
       client' = userDataSettled(client, i, ok)
  /\ UNCHANGED serverVars

Navigate ==
  /\ Routing
  /\ \E l \in Locations : l # client.location /\ client' = navigate(client, l)
  /\ UNCHANGED serverVars

RunEffect ==
  /\ Routing
  /\ client.effect
  /\ client' = useEffect(client)
  /\ UNCHANGED serverVars

NextRouter == AuthStateChanged \/ UserDataSettled \/ Navigate \/ RunEffect

SpecRouter == InitRouter /\ [][NextRouter]_vars

----------------------------------------------------------------------------
(* client lib/validation/phone.ts.  A string is the sequence of its         *)
(* characters.                                                              *)

MaxPhone == 16       \* characters typed into the phone field

\* s.slice(a, b)
slice(s, a, b) ==
  SubSeq(s, a + 1, IF b < Len(s) THEN b ELSE Len(s))

\* value.replace(/\D/g, '')
OnlyDigits(value) == SelectSeq(value, IsDigit)

\* s.startsWith(p)
startsWith(s, p) == Len(s) >= Len(p) /\ SubSeq(s, 1, Len(p)) = p

\* the while loop of formatPhone: blocks of three, each after a blank
RECURSIVE BlocksOfThree(_)
BlocksOfThree(remaining) ==
  IF remaining = <<>> THEN <<>>
  ELSE <<" ">> \o slice(remaining, 0, 3) \o BlocksOfThree(slice(remaining, 3, Len(remaining)))

\* /^[923]/.test(numbers)
National(numbers) == numbers[1] \in {"9", "2", "3"}

formatPhone(value) ==
  LET numbers == OnlyDigits(value)
  IN IF value = <<>> \/ numbers = <<>> THEN <<>>
     ELSE IF National(numbers)
     THEN LET limited == slice(numbers, 0, 9)
          IN IF Len(limited) <= 3 THEN limited
             ELSE IF Len(limited) <= 6
             THEN slice(limited, 0, 3) \o <<" ">> \o slice(limited, 3, Len(limited))
             ELSE slice(limited, 0, 3) \o <<" ">> \o slice(limited, 3, 6)
                    \o <<" ">> \o slice(limited, 6, 9)
     ELSE IF startsWith(numbers, <<"3", "5", "1">>)
     THEN LET limited == slice(numbers, 0, 12)
              rest    == slice(limited, 3, Len(limited))
          IN IF Len(limited) <= 3 THEN <<"+">> \o limited
             ELSE IF Len(rest) <= 3
             THEN <<"+">> \o slice(limited, 0, 3) \o <<" ">> \o rest
             ELSE IF Len(rest) <= 6
             THEN <<"+">> \o slice(limited, 0, 3) \o <<" ">> \o slice(rest, 0, 3)
                    \o <<" ">> \o slice(rest, 3, Len(rest))
             ELSE <<"+">> \o slice(limited, 0, 3) \o <<" ">> \o slice(rest, 0, 3)
                    \o <<" ">> \o slice(rest, 3, 6) \o <<" ">> \o slice(rest, 6, Len(rest))
     ELSE LET limited == slice(numbers, 0, 15)
          IN IF Len(limited) <= 3 THEN <<"+">> \o limited
             ELSE <<"+">> \o slice(limited, 0, 3) \o <<" ">> \o slice(limited, 3, 5)
                    \o BlocksOfThree(slice(limited, 5, Len(limited)))

\* phoneSchema's refine on the trimmed value
phoneSchema(value) ==
  LET val     == trim(value)
      numbers == OnlyDigits(val)
  IN \/ val = <<>>
     \/ Len(numbers) = 9 /\ numbers[1] \in {"9", "2", "3"}
     \/ Len(numbers) \in 9..15

\* what a user types, pastes or loads into the field
PhoneSamples ==
  {<<"+", "3", "5", "1", " ", "9", "1", "2", " ", "3", "4", "5", " ", "6", "7", "8">>,
   <<"3", "5", "1", "9", "1", "2", "3", "4", "5", "6", "7", "8">>,
   <<"9", "1", "2", "3", "4", "5", "6", "7", "8">>,
   <<"+", "4", "4", " ", "2", "0", " ", "7", "9", "4", "6", " ", "0", "9", "5", "8">>,
   <<"(", "2", "1", ")", " ", "3", "4", "5", "-", "6", "7", "8", "9">>,
   <<"a", "b", "c">>}

\* every stage of typing a sample
PhoneInputs ==
  {slice(t, 0, n) : t \in PhoneSamples, n \in 0..MaxPhone}

ClientPhone(value) ==
  [scene |-> "phone", pc |-> "typed", value |-> value, formatted |-> <<>>,
   valid |-> FALSE]

InitPhone ==
  /\ ServerAtRest
  /\ \E v \in PhoneInputs : Len(v) <= MaxPhone /\ client = ClientPhone(v)

\* onChange: the field shows formatPhone of what was typed
FormatPhone ==
  /\ client.scene = "phone" /\ client.pc = "typed"
  /\ client' = [client EXCEPT !.formatted = formatPhone(client.value),
                              !.pc = "formatted"]
  /\ UNCHANGED serverVars

\* submit: phoneSchema validates the field's text
ValidatePhone ==
  /\ client.scene = "phone" /\ client.pc = "formatted"
  /\ client' = [client EXCEPT !.valid = phoneSchema(client.formatted),
                              !.pc = "validated"]
  /\ UNCHANGED serverVars

NextPhone == FormatPhone \/ ValidatePhone

SpecPhone == InitPhone /\ [][NextPhone]_vars

----------------------------------------------------------------------------
(* Vocabulary of the properties.  Under Spec the request just answered sits *)
(* in slot 1 with the store it met (pre); `store` is the store it left.     *)

Answered(r) == r.pc = "done"

\* the entity tables, without the id sequences
Records(st) == [t \in Tables |-> st[t]]

ByCompany ==
  {"GET /api/companies/:id", "PUT /api/companies/:id",
   "GET /api/companies/:companyId/services",
   "POST /api/companies/:companyId/services",
   "GET /api/companies/:companyId/job-offers",
   "POST /api/companies/:companyId/job-offers"}
ByService ==
  {"GET /api/services/:id", "PUT /api/services/:id", "DELETE /api/services/:id",
   "POST /api/services/:serviceId/images"}
ByJobOffer ==
  {"GET /api/job-offers/:id", "PUT /api/job-offers/:id", "DELETE /api/job-offers/:id"}
ByImage == {"DELETE /api/service-images/:id"}

MutatingChildRoutes ==
  {"PUT /api/companies/:id", "POST /api/companies/:companyId/services",
   "PUT /api/services/:id", "DELETE /api/services/:id",
   "POST /api/services/:serviceId/images", "DELETE /api/service-images/:id",
   "POST /api/companies/:companyId/job-offers", "PUT /api/job-offers/:id",
   "DELETE /api/job-offers/:id"}

AddressedTable(route) ==
  CASE route \in ByCompany  -> "companies"
    [] route \in ByService  -> "services"
    [] route \in ByJobOffer -> "jobOffers"
    [] route \in ByImage    -> "serviceImages"

\* the rows the path of request r names, in store st
Addressed(st, r) ==
  {x \in st[AddressedTable(r.route)] : x.id = parseInt(r.param)}

\* the companies a row x of table t belongs to
CompaniesOf(st, t, x) ==
  CASE t = "companies" -> {x}
    [] t \in {"services", "jobOffers"} ->
         {c \in st.companies : c.id = x.companyId}
    [] t = "serviceImages" ->
         {c \in st.companies :
            \E sv \in st.services : sv.id = x.serviceId /\ c.id = sv.companyId}

\* the companies request r is made against
Targets(st, r) ==
  UNION {CompaniesOf(st, AddressedTable(r.route), x) : x \in Addressed(st, r)}

\* the local records of the caller of an authenticated request
Callers(st, r) == {u \in st.users : u.uid = r.user.uid}

\* the caller is a known user who owns none of the companies addressed
NonOwner(r) ==
  /\ r.invoked
  /\ Callers(r.pre, r) # {}
  /\ Targets(r.pre, r) # {}
  /\ \A u \in Callers(r.pre, r) : \A c \in Targets(r.pre, r) : c.ownerId # u.id

\* C1: a mutating request against a company, or a child of it, by a user who
\* is not the company's owner is answered 403 and leaves every record as it
\* was.
C1_NonOwnerDenied ==
  \A s \in Slots :
    (Answered(reqs[s]) /\ reqs[s].route \in MutatingChildRoutes /\ NonOwner(reqs[s]))
      => (reqs[s].status = 403 /\ Records(store) = Records(reqs[s].pre))

\* a known user who owns none of the companies addressed had a mutating
\* request answered 200 and a record is gone
C1_Witness ==
  /\ Answered(reqs[1])
  /\ reqs[1].route \in MutatingChildRoutes
  /\ NonOwner(reqs[1])
  /\ reqs[1].status = 200
  /\ Records(store) # Records(reqs[1].pre)

\* C2: a POST /api/companies by a user who owns a company is answered 400
\* and creates nothing, and every user owns at most one company.
C2_OneCompanyPerOwner ==
  /\ \A s \in Slots :
       (/\ Answered(reqs[s]) /\ reqs[s].route = "POST /api/companies"
        /\ reqs[s].invoked
        /\ \E u \in Callers(reqs[s].pre, reqs[s]) :
             \E c \in reqs[s].pre.companies : c.ownerId = u.id)
         => (reqs[s].status = 400 /\ Records(store) = Records(reqs[s].pre))
  /\ \A u \in store.users :
       Cardinality({c \in store.companies : c.ownerId = u.id}) <= 1

\* after A's PUT /api/companies/1 with an ownerId in the body, one user owns
\* two companies
C2_Witness ==
  /\ Answered(reqs[1])
  /\ reqs[1].route = "PUT /api/companies/:id"
  /\ reqs[1].status = 200
  /\ \E u \in store.users :
       Cardinality({c \in store.companies : c.ownerId = u.id}) = 2

\* C5: DELETE /api/service-images/:id answers 404 when no image has that id,
\* 403 when the image's company is owned by someone else, and removes no
\* image of a company the caller does not own.
C5_ImageDeleteChecksItsOwnChain ==
  \A s \in Slots :
    LET r == reqs[s]
    IN (Answered(r) /\ r.route \in ByImage /\ r.invoked /\ ~isNaN(parseInt(r.param)))
         => /\ Addressed(r.pre, r) = {} => r.status = 404
            /\ NonOwner(r) => r.status = 403
            /\ \A img \in r.pre.serviceImages \ store.serviceImages :
                 \E c \in CompaniesOf(r.pre, "serviceImages", img) :
                   \E u \in Callers(store, r) : c.ownerId = u.id

\* the image removed is not the caller's: it belongs to a company of
\* another owner
C5_Witness ==
  /\ Answered(reqs[1])
  /\ reqs[1].route \in ByImage
  /\ reqs[1].status = 200
  /\ \E img \in reqs[1].pre.serviceImages \ store.serviceImages :
       \A c \in CompaniesOf(reqs[1].pre, "serviceImages", img) :
         \A u \in Callers(store, reqs[1]) : c.ownerId # u.id

\* C6: on the routes that address a company, a service or a job offer by
\* id, a missing resource or owning company is answered 404 whoever calls,
\* and 403 is answered only when both exist and the company's ownerId
\* differs from the caller's local id.
C6_NotFoundBeforeForbidden ==
  \A s \in Slots :
    LET r == reqs[s]
    IN (/\ Answered(r) /\ r.route \in ByCompany \cup ByService \cup ByJobOffer
        /\ r.invoked /\ ~isNaN(parseInt(r.param)))
         => /\ Targets(r.pre, r) = {} => r.status = 404
            /\ r.status = 403 =>
                 /\ Targets(r.pre, r) # {}
                 /\ Callers(store, r) # {}
                 /\ \A c \in Targets(r.pre, r) : \A u \in Callers(store, r) :
                      c.ownerId # u.id

\* a non-owner was refused the deletion of an existing job offer
C6_Witness ==
  /\ Answered(reqs[1])
  /\ reqs[1].route = "DELETE /api/job-offers/:id"
  /\ NonOwner(reqs[1])
  /\ reqs[1].status = 403

\* the text after 'Bearer ' that the client sent
Sent(h) == Tail(h.lex)
Blank(t) == \A i \in 1..Len(t) : t[i] = " "

\* no header, no Bearer scheme, no token, or a token the provider rejects
Unusable(h) ==
  \/ ~h.present
  \/ h.lex = <<>>
  \/ h.lex[1] # "Bearer "
  \/ Blank(Sent(h))
  \/ verifyToken(Sent(h)).err

\* C7: a request whose Authorization header is missing, is not a Bearer
\* header, carries no token or carries a token the provider rejects is
\* answered 401 without its handler running; a handler runs only with a
\* token the provider accepted, and req.user is then the decoded token.
C7_AuthenticateGuardsEveryRoute ==
  \A s \in Slots :
    LET r == reqs[s]
    IN Answered(r) =>
         /\ Unusable(r.hdr) =>
              (r.status = 401 /\ ~r.invoked /\ r.reads = 0 /\ r.writes = 0)
         /\ r.invoked =>
              (~verifyToken(r.token).err /\ r.user = verifyToken(r.token).ret)

\* an expired token was refused on a mutating route
C7_Witness ==
  /\ Answered(reqs[1])
  /\ reqs[1].hdr = Header(<<"Bearer ", "expired">>)
  /\ reqs[1].status = 401
  /\ ~reqs[1].invoked

\* C9: a successful PUT /api/job-offers/:id sets exactly the job offer
\* fields present in the body and updatedAt; every other column of that
\* offer, every other offer and every other table is as before.
C9_PartialUpdateFrame ==
  \A s \in Slots :
    LET r == reqs[s]
    IN (Answered(r) /\ r.route = "PUT /api/job-offers/:id" /\ r.status = 200)
         => \E old \in r.pre.jobOffers : \E new \in store.jobOffers :
              /\ old.id = r.id /\ new.id = r.id
              /\ \A c \in Columns("jobOffers") :
                   new[c] = IF c = "updatedAt" THEN Date(now)
                            ELSE IF c \in DOMAIN r.body \cap InsertKeys("jobOffers")
                                 THEN r.body[c]
                            ELSE old[c]
              /\ store.jobOffers \ {new} = r.pre.jobOffers \ {old}
              /\ \A t \in Tables \ {"jobOffers"} : store[t] = r.pre[t]
              /\ r.payload = new

\* the owner changed only salaryRange, at a later instant than the creation
C9_Witness ==
  /\ Answered(reqs[1])
  /\ reqs[1].route = "PUT /api/job-offers/:id"
  /\ reqs[1].status = 200
  /\ reqs[1].body = [salaryRange |-> Str("2000-2500")]
  /\ \E o \in store.jobOffers :
       /\ o.salaryRange = Str("2000-2500") /\ o.title = Str("Dev")
       /\ o.createdAt = Date(1) /\ o.updatedAt = Date(2)

\* the profile documents the provider holds for the caller
Profiles(r) == {p \in profiles : p.id = r.user.uid}

\* user resolution ran to its end for r (r.dbUser is what it returned)
Resolved(r) == Answered(r) /\ r.invoked /\ ~IsUndefined(r.dbUser)

\* C10 as stated: resolution yields the caller's one local record, created
\* on first sight; without a provider profile the record is still created,
\* with displayName and photoURL null, and the request goes on.
C10_AlwaysMaterialized ==
  \A s \in Slots :
    LET r == reqs[s]
    IN Resolved(r) =>
         /\ Callers(store, r) = {r.dbUser}
         /\ (Callers(r.pre, r) = {} /\ Profiles(r) = {}) =>
              /\ IsNull(r.dbUser.displayName) /\ IsNull(r.dbUser.photoURL)
              /\ r.nsend = 1 /\ ~r.unhandled

\* C10, amended: resolution returns the caller's local record when there is
\* one; on first sight it creates one from the provider profile, with
\* displayName and photoURL null where the profile has none; with no
\* provider profile it creates nothing, answers 404 "User not found" and
\* returns null.
C10_ResolvedFromProfile ==
  \A s \in Slots :
    LET r == reqs[s]
        orNull(v) == IF Falsy(v) THEN Null ELSE v
    IN Resolved(r) =>
         IF Callers(r.pre, r) # {}
         THEN r.dbUser \in Callers(r.pre, r) /\ store.users = r.pre.users
         ELSE IF Profiles(r) = {}
         THEN /\ IsNull(r.dbUser) /\ store.users = r.pre.users
              /\ r.status = 404 /\ r.payload = Msg("User not found")
         ELSE /\ store.users = r.pre.users \cup {r.dbUser}
              /\ r.dbUser.uid = r.user.uid
              /\ r.dbUser.email = IF Falsy(Field(r.user, "email")) THEN Str("")
                                   ELSE r.user.email
              /\ \E p \in Profiles(r) :
                   /\ r.dbUser.displayName = orNull(Field(p, "displayName"))
                   /\ r.dbUser.photoURL = orNull(Field(p, "photoURL"))

\* B, whose profile has no photo, was seen for the first time
C10_Witness ==
  /\ Resolved(reqs[1])
  /\ Callers(reqs[1].pre, reqs[1]) = {}
  /\ reqs[1].user.uid = Str("uidB")
  /\ \E u \in store.users : u = reqs[1].dbUser /\ IsNull(u.photoURL)

CreateUpdateRoutes ==
  {"POST /api/companies", "PUT /api/companies/:id",
   "POST /api/companies/:companyId/services", "PUT /api/services/:id",
   "POST /api/services/:serviceId/images",
   "POST /api/companies/:companyId/job-offers", "PUT /api/job-offers/:id"}

\* the schema check of a create or update route applied to r's body
SchemaCheck(r) ==
  CASE r.route = "POST /api/companies" -> safeParse("companies", r.body, FALSE)
    [] r.route = "PUT /api/companies/:id" -> safeParse("companies", r.body, TRUE)
    [] r.route = "POST /api/companies/:companyId/services" ->
         safeParse("services", Spread(r.body, [companyId |-> parseInt(r.param)]), FALSE)
    [] r.route = "PUT /api/services/:id" -> safeParse("services", r.body, TRUE)
    [] r.route = "POST /api/services/:serviceId/images" ->
         safeParse("serviceImages",
                   [serviceId |-> parseInt(r.param), url |-> Field(r.body, "url")], FALSE)
    [] r.route = "POST /api/companies/:companyId/job-offers" ->
         safeParse("jobOffers", Spread(r.body, [companyId |-> parseInt(r.param)]), FALSE)
    [] r.route = "PUT /api/job-offers/:id" -> safeParse("jobOffers", r.body, TRUE)

\* a handled create or update whose body fails the schema check
BodyFails(r) ==
  /\ Answered(r) /\ r.invoked /\ r.route \in CreateUpdateRoutes
  /\ r.route = "POST /api/companies" \/ ~isNaN(parseInt(r.param))
  /\ ~SchemaCheck(r).success

\* the caller is a known user who owns a company addressed
IsOwner(r) ==
  \E u \in Callers(r.pre, r) : \E c \in Targets(r.pre, r) : c.ownerId = u.id

PassedCheck(r) ==
  /\ r.pc # "idle" /\ r.route = "POST /api/companies"
  /\ "list" \in DOMAIN r.userCompanies /\ r.userCompanies.list = {}

\* C3: when two POST /api/companies of one user (resolved to the same local
\* record) have both read an empty company list before either created its
\* company, both are answered 201 and two companies with that user's id as
\* ownerId are stored.
C3_BothPassBothCreate ==
  (/\ PassedCheck(reqs[1]) /\ PassedCheck(reqs[2])
   /\ Answered(reqs[1]) /\ Answered(reqs[2])
   /\ reqs[1].dbUser = reqs[2].dbUser)
    => /\ reqs[1].status = 201 /\ reqs[2].status = 201
       /\ reqs[1].payload # reqs[2].payload
       /\ {reqs[1].payload, reqs[2].payload} \subseteq store.companies
       /\ reqs[1].payload.ownerId = reqs[1].dbUser.id
       /\ reqs[2].payload.ownerId = reqs[1].dbUser.id

\* both requests of user A were answered 201 and A owns two companies
C3_Witness ==
  /\ Answered(reqs[1]) /\ Answered(reqs[2])
  /\ reqs[1].route = "POST /api/companies" /\ reqs[2].route = "POST /api/companies"
  /\ reqs[1].status = 201 /\ reqs[2].status = 201
  /\ reqs[1].user.uid = reqs[2].user.uid
  /\ \E u \in FsDocs(World, "users") :
       /\ u.uid = reqs[1].user.uid
       /\ Cardinality({c \in store.companies : c.ownerId = u.id}) = 2

\* r found no local user, read a provider profile, and its createUser call
\* has settled
CalledCreateUser(r) ==
  r.pc \notin {"idle", "createUser"} /\ ~IsUndefined(r.userData)

\* the local User records with the uid of r's caller
LocalRecords(r) == {u \in store.users : u.uid = r.user.uid}

\* C11 as stated: when two requests of one uid have both found no local
\* user and both called createUser, two local User records with that uid
\* are stored.
C11_RaceCreatesDuplicates ==
  (/\ CalledCreateUser(reqs[1]) /\ CalledCreateUser(reqs[2])
   /\ reqs[1].user.uid = reqs[2].user.uid)
    => Cardinality(LocalRecords(reqs[1])) = 2

\* C11, amended: two first requests of one uid can both find no local user
\* and both call createUser.  Under DatabaseStorage users.uid is unique: one
\* insert creates the record, the other rejects and its request is answered
\* 500, so one record is stored.  Under FirestoreStorage both documents are
\* stored with the same uid; createUser is reached there only when the
\* caller's profile document does not carry the caller's uid, since the
\* adapter's lookup reads the collection that holds the profile documents.
C11_RaceByAdapter ==
  /\ \A s \in Slots :
       (CalledCreateUser(reqs[s]) /\ backend = "fs")
         => \A p \in Profiles(reqs[s]) : Field(p, "uid") # reqs[s].user.uid
  /\ (/\ CalledCreateUser(reqs[1]) /\ CalledCreateUser(reqs[2])
      /\ reqs[1].user.uid = reqs[2].user.uid)
       => IF backend = "db"
          THEN /\ Cardinality(LocalRecords(reqs[1])) = 1
               /\ \E s \in Slots :
                    /\ reqs[s].dbUser \in LocalRecords(reqs[1])
                    /\ reqs[3 - s].status = 500
                    /\ reqs[3 - s].payload = Msg("Internal server error")
                    /\ IsUndefined(reqs[3 - s].dbUser)
          ELSE /\ LocalRecords(reqs[1]) = {reqs[1].dbUser, reqs[2].dbUser}
               /\ reqs[1].dbUser.id # reqs[2].dbUser.id

\* both requests of a new user called createUser over DatabaseStorage: one
\* record is stored and one request was answered 500
C11_Witness ==
  /\ backend = "db"
  /\ CalledCreateUser(reqs[1]) /\ CalledCreateUser(reqs[2])
  /\ reqs[1].user.uid = reqs[2].user.uid
  /\ Cardinality(LocalRecords(reqs[1])) = 1
  /\ \E s \in Slots : reqs[s].status = 500

\* both requests called createUser over FirestoreStorage: two documents with
\* the caller's uid are stored
C11_WitnessDocument ==
  /\ backend = "fs"
  /\ CalledCreateUser(reqs[1]) /\ CalledCreateUser(reqs[2])
  /\ reqs[1].user.uid = reqs[2].user.uid
  /\ Cardinality(LocalRecords(reqs[1])) = 2

GetOneRoutes == {"GET /api/services/:id", "GET /api/job-offers/:id"}

\* a local record of r's caller owns a company that r addresses
OwnsTarget(r) ==
  \E u \in Callers(store, r) : \E c \in Targets(r.pre, r) : c.ownerId = u.id

CreateChildRoutes ==
  {"POST /api/companies/:companyId/services",
   "POST /api/companies/:companyId/job-offers"}

ChildTable(route) ==
  IF route = "POST /api/companies/:companyId/services" THEN "services"
  ELSE "jobOffers"

\* C13: a Service or JobOffer created through POST
\* /api/companies/:companyId/services or /job-offers is stored with the
\* companyId of the path, whatever companyId the body carries; it is the
\* only record the request adds and it is the one returned.
C13_CompanyIdFromPath ==
  \A s \in Slots :
    LET r == reqs[s]
        t == ChildTable(r.route)
    IN (Answered(r) /\ r.route \in CreateChildRoutes)
         => /\ \A x \in store[t] \ r.pre[t] : x.companyId = parseInt(r.param)
            /\ r.status = 201 =>
                 /\ store[t] \ r.pre[t] = {r.payload}
                 /\ r.payload.companyId = parseInt(r.param)

\* a record was created under company 1 by a request whose body named
\* company 2
C13_Witness ==
  /\ Answered(reqs[1])
  /\ reqs[1].route \in CreateChildRoutes
  /\ reqs[1].status = 201
  /\ reqs[1].param = "1"
  /\ Field(reqs[1].body, "companyId") = Num(2)
  /\ reqs[1].payload.companyId = Num(1)
  /\ reqs[1].payload \in store[ChildTable(reqs[1].route)]

\* the URLs of the stored images of service sv
ImageUrls(sv) == {img.url : img \in {i \in store.serviceImages : i.serviceId = sv.id}}

\* C14: GET /api/companies/:companyId/services answers the owner 200 with
\* exactly the stored services of that company, each extended with images:
\* exactly the URLs of the stored images of that service, empty for a
\* service that has none.
C14_ServiceListWithImages ==
  \A s \in Slots :
    LET r == reqs[s]
        mine == {sv \in store.services : sv.companyId = parseInt(r.param)}
    IN (/\ Answered(r) /\ r.route = "GET /api/companies/:companyId/services"
        /\ r.invoked /\ Targets(r.pre, r) # {})
         => /\ OwnsTarget(r) <=> r.status = 200
            /\ r.status = 200 =>
                 /\ r.payload.list = {Spread(sv, [images |-> ImageUrls(sv)]) : sv \in mine}
                 /\ \A item \in r.payload.list :
                      (~\E i \in store.serviceImages : i.serviceId = item.id)
                        => item.images = {}

\* the owner listed a service with an image and a service created since,
\* which has none
C14_Witness ==
  /\ Answered(reqs[1])
  /\ reqs[1].route = "GET /api/companies/:companyId/services"
  /\ reqs[1].status = 200
  /\ \E a \in reqs[1].payload.list : \E b \in reqs[1].payload.list :
       /\ a.images = {Str("u2")} /\ a.id = Num(1)
       /\ b.images = {} /\ b.id = Num(3)

UpdateOps == {"updateCompany", "updateJobOffer"}
UpdatedTable(op) == IF op = "updateCompany" THEN "companies" ELSE "jobOffers"

\* an update of an entity that exists settled without error
Updated ==
  /\ call.op \in UpdateOps /\ ~call.err
  /\ \E x \in store[UpdatedTable(call.op)] : x.id = call.arg.id

\* C15: under either adapter update(id, patch) of an existing entity returns
\* the full updated entity as stored: id, all fields and both timestamps.
C15_UpdateReturnsStoredEntity ==
  Updated =>
    /\ call.ret \in store[UpdatedTable(call.op)]
    /\ {"id", "createdAt", "updatedAt"} \subseteq DOMAIN call.ret

\* FirestoreStorage.updateCompany resolved with the id, the patch and
\* updatedAt only; the stored document has more fields
C15_Witness ==
  /\ backend = "fs"
  /\ Updated /\ call.op = "updateCompany"
  /\ DOMAIN call.ret = {"id", "name", "updatedAt"}
  /\ \E x \in store.companies :
       x.id = call.arg.id /\ x.name = call.ret.name /\ "ownerId" \in DOMAIN x

\* DatabaseStorage.updateCompany resolved with the stored row
C15_WitnessRelational ==
  /\ backend = "db"
  /\ Updated /\ call.op = "updateCompany"
  /\ call.ret \in store.companies
  /\ DOMAIN call.ret = Columns("companies")

Stamped == {"companies", "services", "jobOffers"}

\* what new Date() / defaultNow() yields under the adapter in use
ServerStamp(t) == IF backend = "db" THEN Date(t) ELSE Iso(t)

\* the request carried a createdAt or updatedAt of its own
SentStamps(r) == DOMAIN r.body \cap {"createdAt", "updatedAt"} # {}

C16_WitnessCreate ==
  /\ Answered(reqs[1])
  /\ reqs[1].route = "POST /api/companies"
  /\ reqs[1].status = 201
  /\ SentStamps(reqs[1])
  /\ reqs[1].payload \in store.companies
  /\ reqs[1].payload.createdAt = ServerStamp(now)

ProviderCalls == {"getUserData", "me_getUserData", "updateUserData"}

\* C17: when a storage call or an identity-provider call of a request that
\* passed authentication rejects, the request is answered 500 with the
\* body {message: "Internal server error"} and nothing else, once; every
\* 500 of a handler has that body.
C17_FailureIsGeneric500 ==
  \A s \in Slots :
    LET r == reqs[s]
    IN (Answered(r) /\ r.invoked) =>
         /\ r.failed # "" =>
              /\ r.status = 500
              /\ r.payload = Msg("Internal server error")
              /\ r.nsend = 1 /\ ~r.unhandled
         /\ r.status = 500 => r.payload = Msg("Internal server error")

\* the second statement of deleteService rejected: the request was answered
\* 500 with the generic body
C17_Witness ==
  /\ Answered(reqs[1])
  /\ reqs[1].route = "DELETE /api/services/:id"
  /\ reqs[1].failed = "deleteService_service"
  /\ reqs[1].status = 500
  /\ reqs[1].payload = Msg("Internal server error")

\* a provider call rejected during user resolution
C17_WitnessProvider ==
  /\ Answered(reqs[1])
  /\ reqs[1].failed \in ProviderCalls
  /\ reqs[1].status = 500
  /\ reqs[1].payload = Msg("Internal server error")

\* the fields of profile document p
DataOf(p) == Pick(p, DOMAIN p \ {"id"})

\* C18: GET /api/auth/me with a valid token is answered 200 with the data
\* of the profile document stored under the uid the token decodes to (null
\* when there is none), and never with the document of another uid.
C18_MeReturnsOwnProfile ==
  \A s \in Slots :
    LET r == reqs[s]
    IN (Answered(r) /\ r.route = "GET /api/auth/me" /\ r.invoked) =>
         /\ r.user.uid = verifyToken(Sent(r.hdr)).ret.uid
         /\ r.status = 200
         /\ IF Profiles(r) = {} THEN r.payload = Null
            ELSE \E p \in Profiles(r) : r.payload = DataOf(p)
         /\ \A q \in profiles : q.id # r.user.uid => r.payload # DataOf(q)

\* B read B's profile while A's profile is stored as well
C18_Witness ==
  /\ Answered(reqs[1])
  /\ reqs[1].route = "GET /api/auth/me"
  /\ reqs[1].status = 200
  /\ reqs[1].user.uid = Str("uidB")
  /\ reqs[1].payload.displayName = Str("Bruno")
  /\ \E q \in profiles : q.id = Str("uidA")

ChildWriteRoutes ==
  {"POST /api/companies/:companyId/services", "PUT /api/services/:id",
   "POST /api/services/:serviceId/images",
   "POST /api/companies/:companyId/job-offers", "PUT /api/job-offers/:id"}

\* the answer the fixed order of checks gives request r: 0 when all four pass
Verdict(r) ==
  IF isNaN(parseInt(r.param)) THEN 400
  ELSE IF Targets(r.pre, r) = {} THEN 404
  ELSE IF Callers(store, r) = {} THEN 404
  ELSE IF ~OwnsTarget(r) THEN 403
  ELSE IF ~SchemaCheck(r).success THEN 400
  ELSE 0

\* a handled create or update of a child resource
ChildWrite(r) == Answered(r) /\ r.invoked /\ r.route \in ChildWriteRoutes

\* the checks of r are answered in the fixed order
InFixedOrder(r) ==
  /\ Verdict(r) # 0 => r.status = Verdict(r)
  /\ Verdict(r) = 0 => r.status \in {200, 201, 500}

\* C19 as stated: the create and update handlers of a child resource answer
\* in the order path id (400), existence (404), ownership (403), body (400),
\* and a request that did not pass all four checks issued no storage write.
C19_ChecksBeforeAnyWrite ==
  \A s \in Slots :
    LET r == reqs[s]
    IN ChildWrite(r) =>
         /\ InFixedOrder(r)
         /\ Verdict(r) # 0 => r.writes = 0

\* C19, amended: the create and update handlers of a child resource answer
\* in the order path id (400), existence (404), ownership (403, or 404 for a
\* caller with neither a local record nor a profile), body (400); a non-owner
\* with an invalid body gets 403; a request that did not pass all four
\* checks changed no company, service, image or job offer, and the one write
\* it can have issued is the creation of its caller's local user record by
\* the user resolution of the ownership step.
C19_ChecksBeforeResourceWrite ==
  \A s \in Slots :
    LET r == reqs[s]
    IN ChildWrite(r) =>
         /\ InFixedOrder(r)
         /\ Verdict(r) # 0 =>
              /\ \A t \in Tables \ {"users"} : store[t] = r.pre[t]
              /\ r.writes = 0 => store.users = r.pre.users
              /\ r.writes # 0 =>
                   /\ r.writes = 1
                   /\ Callers(r.pre, r) = {}
                   /\ Targets(r.pre, r) # {}
                   /\ store.users = r.pre.users \union {r.dbUser}
         /\ r.status \in {200, 201} =>
              /\ Verdict(r) = 0
              /\ r.writes = 1
              /\ store.users = r.pre.users

\* a non-owner who sent an invalid service update was answered 403
C19_Witness ==
  /\ ChildWrite(reqs[1])
  /\ reqs[1].route = "PUT /api/services/:id"
  /\ NonOwner(reqs[1])
  /\ ~SchemaCheck(reqs[1]).success
  /\ reqs[1].status = 403
  /\ reqs[1].writes = 0

\* B's first request ever was a job offer for A's company: B's user record
\* was created and the request refused
C19_WitnessFirstSight ==
  /\ ChildWrite(reqs[1])
  /\ reqs[1].route = "POST /api/companies/:companyId/job-offers"
  /\ Callers(reqs[1].pre, reqs[1]) = {}
  /\ reqs[1].status = 403
  /\ reqs[1].writes = 1
  /\ store.users # reqs[1].pre.users

\* the images of service id in store st
ImagesOf(st, id) == {i \in st.serviceImages : i.serviceId = id}

\* a DELETE /api/services/:id over the relational adapter, finished
ServiceDelete(r) ==
  /\ Answered(r) /\ r.invoked /\ backend = "db"
  /\ r.route = "DELETE /api/services/:id"

\* C20: the relational deleteService deletes the images of the service
\* first and the service row second, as two calls: stopped before the first
\* the store is untouched; stopped between the two the service is stored
\* with no images; completed, neither is stored; and in every state each
\* stored image refers to a stored service.
C20_ImagesThenService ==
  /\ backend = "db" =>
       \A i \in store.serviceImages :
         \E sv \in store.services : sv.id = i.serviceId
  /\ \A s \in Slots :
       LET r == reqs[s]
       IN ServiceDelete(r) =>
            /\ r.failed = "deleteService" =>
                 /\ store.services = r.pre.services
                 /\ store.serviceImages = r.pre.serviceImages
            /\ r.failed = "deleteService_service" =>
                 /\ r.status = 500
                 /\ store.services = r.pre.services
                 /\ \E sv \in store.services : sv.id = r.id
                 /\ store.serviceImages =
                      r.pre.serviceImages \ ImagesOf(r.pre, r.id)
            /\ r.status = 200 =>
                 /\ store.services = {sv \in r.pre.services : sv.id # r.id}
                 /\ store.serviceImages =
                      r.pre.serviceImages \ ImagesOf(r.pre, r.id)

\* a deleteService of a service with images stopped between its two calls:
\* the service is stored, its images are not
C20_Witness ==
  /\ ServiceDelete(reqs[1])
  /\ reqs[1].failed = "deleteService_service"
  /\ ImagesOf(reqs[1].pre, reqs[1].id) # {}
  /\ ImagesOf(store, reqs[1].id) = {}
  /\ \E sv \in store.services : sv.id = reqs[1].id

\* a deleteService of a service with images ran to its end
C20_WitnessComplete ==
  /\ ServiceDelete(reqs[1])
  /\ reqs[1].status = 200
  /\ ImagesOf(reqs[1].pre, reqs[1].id) # {}
  /\ ImagesOf(store, reqs[1].id) = {}
  /\ \A sv \in store.services : sv.id # reqs[1].id

\* a run of the client's deleteService, at any of its steps
Deleting == client.scene = "deleteService"

\* C21: the client's deleteService deletes the service document before any
\* image file; an image whose deletion fails is skipped and the remaining
\* images are still attempted, and the call returns true; when reading or
\* deleting the service document fails the error is rethrown with the
\* document and every image file still stored.
C21_DocumentFirstImagesBestEffort ==
  Deleting =>
    /\ client.files # client.pre.files =>
         \A d \in client.docs : d.id # "s1"
    /\ client.outcome = "thrown" =>
         /\ client.docs = client.pre.docs
         /\ client.files = client.pre.files
         /\ client.log = <<>>
    /\ client.outcome = "true" =>
         /\ \A d \in client.docs : d.id # "s1"
         /\ client.rest = <<>>
         /\ "images" \in DOMAIN client.service =>
              /\ Len(client.log) = Len(client.service.images)
              /\ \A i \in 1..Len(client.log) :
                   LET path == ImagePath(client.service.images[i])
                   IN client.log[i] = "deleted" =>
                        (~path.err /\ path.ret \in client.pre.files
                         /\ path.ret \notin client.files)
    /\ client.pc \in {"returned", "done"} =>
         client.outcome \in {"true", "thrown"}
    /\ client.pc = "done" =>
         /\ client.toast = IF client.outcome = "true" THEN "Sucesso" ELSE "Erro"
         /\ ("s1" \in client.services) <=> client.outcome = "thrown"

\* the first image could not be deleted, the second was, and the call
\* returned true
C21_Witness ==
  /\ Deleting
  /\ client.pc = "done"
  /\ client.outcome = "true"
  /\ client.log = <<"failed", "deleted">>
  /\ client.files # client.pre.files

\* deleting the service document failed: rethrown, images untouched
C21_WitnessRethrown ==
  /\ Deleting
  /\ client.pc = "done"
  /\ client.outcome = "thrown"
  /\ ~IsUndefined(client.service) /\ "images" \in DOMAIN client.service
  /\ client.files = client.pre.files /\ client.files # {}
  /\ client.toast = "Erro"

\* a call of fetchWithAuth that has settled
Fetched == client.scene = "fetchWithAuth" /\ client.pc = "done"

\* the retry condition of a settled call: a 401 answered the first request
\* and the refresh gave a token other than the one sent
Retried(c) ==
  /\ Len(c.requests) = 2
  /\ c.response = 401
  /\ c.requests[2].Authorization # c.requests[1].Authorization
  /\ [c.requests[2] EXCEPT !.Authorization = <<>>] =
       [c.requests[1] EXCEPT !.Authorization = <<>>]

\* C22 as stated: at most two requests; the request is repeated once, only
\* after a 401 and a refresh that gave a different token; in every other
\* case in which a first response arrived that response is returned; with no
\* user signed in the call throws and sends nothing.
C22_RetryOnceElseFirstResponse ==
  /\ client.scene = "fetchWithAuth" => Len(client.requests) <= 2
  /\ Fetched =>
       /\ Len(client.requests) = 2 => Retried(client)
       /\ (Len(client.requests) = 1 /\ client.response # 0) =>
            (client.outcome = "first" /\ client.returned = client.response)
       /\ (client.requests = <<>>) => client.outcome = "thrown"

\* C22, amended: at most two requests; the request is repeated once, only
\* after a 401 and a refresh that gave a different non-empty token, and the
\* result is then the second fetch; otherwise the first response is
\* returned, unless an awaited call rejected: a rejection of getIdToken
\* (first or refresh) or of the first fetch is rethrown; the call throws
\* without sending anything when no user is signed in or no token came.
C22_RetryOnceOrRethrow ==
  /\ client.scene = "fetchWithAuth" => Len(client.requests) <= 2
  /\ Fetched =>
       /\ Len(client.requests) = 2 <=> client.outcome \in {"second", "rejected"}
       /\ Len(client.requests) = 2 => Retried(client)
       /\ client.outcome = "first" =>
            /\ Len(client.requests) = 1
            /\ client.returned = client.response /\ client.response # 0
       /\ (Len(client.requests) = 1 /\ client.response \in {200, 500}) =>
            client.outcome = "first"
       /\ client.requests = <<>> => client.outcome = "thrown"
       /\ client.outcome = "thrown" =>
            \/ client.requests = <<>>
            \/ Len(client.requests) = 1 /\ client.response \in {0, 401}
       /\ \A i \in 1..Len(client.requests) :
            /\ client.requests[i].Authorization[2] # ""
            /\ client.requests[i].url = fullUrl(client.url)

\* a 401, a refreshed token, and the request sent a second time
C22_Witness ==
  /\ Fetched
  /\ Len(client.requests) = 2
  /\ client.response = 401
  /\ client.outcome = "second"
  /\ client.returned = 200

\* a 401 whose token refresh rejected: the call threw, the 401 was not
\* returned
C22_WitnessRefreshRejected ==
  /\ Fetched
  /\ Len(client.requests) = 1
  /\ client.response = 401
  /\ client.currentUser
  /\ client.outcome = "thrown"

ProtectedPages == {Routes[i].page : i \in {j \in 1..Len(Routes) : Routes[j].wrap = "ProtectedRoute"}}
AuthPages == {Routes[i].page : i \in {j \in 1..Len(Routes) : Routes[j].wrap = "AuthRoute"}}

\* C23: a protected page is on screen only while loading is false and user
\* is non-null, an auth page only while loading is false and user is null;
\* once the effects have run, a state with loading false and user null is
\* not at a protected location (it was sent to /login) and a state with
\* loading false and a user is not at an auth location (sent to /dashboard).
C23_RouteGuards ==
  Routing =>
    /\ client.view \in ProtectedPages => (~client.loading /\ ~IsNull(client.user))
    /\ client.view \in AuthPages => (~client.loading /\ IsNull(client.user))
    /\ (~client.effect /\ ~client.loading) =>
         /\ IsNull(client.user) => Match(client.location).wrap # "ProtectedRoute"
         /\ ~IsNull(client.user) => Match(client.location).wrap # "AuthRoute"
    /\ (~client.effect /\ ~client.loading)
         => client.view = Match(client.location).page

\* C23, the redirects: the effect of a protected route met with loading
\* false and no user sets the location to /login, the effect of an auth
\* route met with loading false and a user sets it to /dashboard, and no
\* other effect moves the location.
C23_Redirects ==
  [][RunEffect =>
       LET m == Match(client.location)
       IN client'.location =
            IF m.wrap = "ProtectedRoute" /\ ~client.loading /\ IsNull(client.user)
            THEN <<"login">>
            ELSE IF m.wrap = "AuthRoute" /\ ~client.loading /\ ~IsNull(client.user)
            THEN <<"dashboard">>
            ELSE client.location]_vars

\* the user signed out on a protected page and was taken to the login page
C23_Witness ==
  /\ Routing
  /\ ~client.loading /\ IsNull(client.user)
  /\ client.location = <<"login">>
  /\ client.view = "Login"
  /\ ~client.effect
  /\ ~IsNull(client.userData)

\* a signed-in user on a protected page
C23_WitnessProtected ==
  /\ Routing
  /\ ~client.loading /\ ~IsNull(client.user)
  /\ client.view = "ServicePage"
  /\ ~client.effect

\* '+351' followed by the next digits, at most nine, in groups of three
Plus351(numbers) ==
  <<"+", "3", "5", "1">> \o BlocksOfThree(slice(numbers, 3, 12))

\* C24: formatPhone of an input whose digits start with 351 is '+351'
\* followed by up to nine further digits in groups of three.
C24_CountryCode351 ==
  (client.scene = "phone" /\ client.pc # "typed"
   /\ startsWith(OnlyDigits(client.value), <<"3", "5", "1">>))
    => client.formatted = Plus351(OnlyDigits(client.value))

\* the digits 351912345678 were formatted as a national number, cut to nine
\* digits
C24_Witness ==
  /\ client.scene = "phone" /\ client.pc # "typed"
  /\ OnlyDigits(client.value) =
       <<"3", "5", "1", "9", "1", "2", "3", "4", "5", "6", "7", "8">>
  /\ client.formatted =
       <<"3", "5", "1", " ", "9", "1", "2", " ", "3", "4", "5">>

\* C25: a company's ownerId is the local id of the user whose POST
\* /api/companies created it: a request leaves the ownerId of every company
\* it met as it was, and a company it added is owned by its caller.
C25_OwnerIdIsCreator ==
  \A s \in Slots :
    LET r == reqs[s]
    IN Answered(r) =>
         \A c \in store.companies :
           \/ \E old \in r.pre.companies :
                old.id = c.id /\ old.ownerId = c.ownerId
           \/ /\ \A old \in r.pre.companies : old.id # c.id
              /\ r.route = "POST /api/companies"
              /\ c.ownerId = r.dbUser.id

\* user A sent PUT /api/companies/1 with {ownerId: 2}: company 1, created
\* by A, is now owned by user B
C25_Witness ==
  /\ Answered(reqs[1])
  /\ reqs[1].route = "PUT /api/companies/:id"
  /\ reqs[1].status = 200
  /\ reqs[1].body = [ownerId |-> Num(2)]
  /\ reqs[1].dbUser.id = Num(1)
  /\ \E old \in reqs[1].pre.companies : old.id = Num(1) /\ old.ownerId = Num(1)
  /\ \E c \in store.companies : c.id = Num(1) /\ c.ownerId = Num(2)

\* a company was created with an ownerId in the body other than the caller's
C25_WitnessCreate ==
  /\ Answered(reqs[1])
  /\ reqs[1].route = "POST /api/companies"
  /\ reqs[1].status = 201
  /\ reqs[1].body.ownerId # reqs[1].dbUser.id
  /\ reqs[1].payload.ownerId = reqs[1].dbUser.id

\* the services and job offers of store st, each with its table
ChildRows(st) ==
  {[t |-> "services", row |-> x] : x \in st.services}
    \cup {[t |-> "jobOffers", row |-> x] : x \in st.jobOffers}

\* C26: a request sets the companyId of a service or job offer only to a
\* company its caller owns: every service and job offer either keeps the
\* companyId the request met, or belongs to a company owned by the caller.
C26_ChildStaysWithOwner ==
  \A s \in Slots :
    LET r == reqs[s]
    IN Answered(r) =>
         \A x \in ChildRows(store) :
           \/ \E old \in ChildRows(r.pre) :
                /\ old.t = x.t /\ old.row.id = x.row.id
                /\ old.row.companyId = x.row.companyId
           \/ \E c \in store.companies :
                c.id = x.row.companyId /\ c.ownerId = r.dbUser.id

\* user A sent PUT /api/services/1 with {companyId: 2}: A's service now
\* belongs to B's company
C26_Witness ==
  /\ Answered(reqs[1])
  /\ reqs[1].route = "PUT /api/services/:id"
  /\ reqs[1].status = 200
  /\ reqs[1].dbUser.id = Num(1)
  /\ \E old \in reqs[1].pre.services : old.id = Num(1) /\ old.companyId = Num(1)
  /\ \E x \in store.services : x.id = Num(1) /\ x.companyId = Num(2)
  /\ \E c \in store.companies : c.id = Num(2) /\ c.ownerId = Num(2)

\* the same through PUT /api/job-offers/1
C26_WitnessJobOffer ==
  /\ Answered(reqs[1])
  /\ reqs[1].route = "PUT /api/job-offers/:id"
  /\ reqs[1].status = 200
  /\ reqs[1].dbUser.id = Num(1)
  /\ \E x \in store.jobOffers : x.id = Num(1) /\ x.companyId = Num(2)
  /\ \E c \in store.companies : c.id = Num(2) /\ c.ownerId = Num(2)

\* C27: a request that passed authentication is answered once: its handler
\* calls res.json exactly one time and no call of it throws.
C27_ExactlyOneResponse ==
  \A s \in Slots :
    LET r == reqs[s]
    IN (Answered(r) /\ r.invoked) => (r.nsend = 1 /\ ~r.unhandled)

\* a caller with neither a local record nor a profile asked for the company
\* list: getUserByFirebaseUid answered 404, the handler wrote its own 404
\* and then the 500 of its catch block, both after the response was out
C27_Witness ==
  /\ Answered(reqs[1]) /\ reqs[1].invoked
  /\ reqs[1].route = "GET /api/companies"
  /\ reqs[1].status = 404
  /\ IsNull(reqs[1].dbUser)
  /\ reqs[1].nsend = 3
  /\ reqs[1].unhandled

CompanyReads == {"GET /api/companies", "GET /api/companies/:id"}

\* store st with every field but id and ownerId of the companies that user
\* id does not own replaced
Blind(st, id) ==
  [st EXCEPT !.companies =
     {IF c.ownerId = id THEN c
      ELSE [col \in DOMAIN c |->
              IF col \in {"id", "ownerId"} THEN c[col] ELSE Str("?")] : c \in @}]

\* the answer request r gets from a store in which the companies of other
\* users carry other field values
AnswerWhenBlind(variant, o) ==
  LET again == Run(variant, o).r
  IN [status |-> again.status, payload |-> again.payload]

\* C28: GET /api/companies answers with exactly the companies whose ownerId
\* is the caller's local id; GET /api/companies/:id answers with the company
\* only for its owner, and with a message only for anyone else; and either
\* answer is the same whatever the fields of other users' companies hold.
C28_OwnCompaniesOnly ==
  \A s \in Slots :
    LET r == reqs[s]
    IN (Answered(r) /\ r.invoked /\ r.route \in CompanyReads) =>
         /\ (r.route = "GET /api/companies" /\ r.status = 200) =>
              r.payload.list = {c \in r.pre.companies : c.ownerId = r.dbUser.id}
         /\ (r.route = "GET /api/companies/:id" /\ r.status = 200) =>
              /\ r.payload \in r.pre.companies
              /\ r.payload.id = parseInt(r.param)
              /\ r.payload.ownerId = r.dbUser.id
         /\ r.status # 200 => DOMAIN r.payload = {"message"}
         /\ \A u \in Callers(store, r) :
              AnswerWhenBlind(authVariant,
                [w |-> [backend |-> backend, now |-> now,
                        store |-> Blind(r.pre, u.id), profiles |-> profiles],
                 r |-> NewRequest(r.route, r.hdr, r.param, r.body, r.uuids,
                                  Blind(r.pre, u.id))])
                = [status |-> r.status, payload |-> r.payload]

\* user A listed the companies while user B owns one too: A got A's only
C28_Witness ==
  /\ Answered(reqs[1])
  /\ reqs[1].route = "GET /api/companies"
  /\ reqs[1].status = 200
  /\ reqs[1].payload.list # {}
  /\ \E c \in reqs[1].pre.companies : c \notin reqs[1].payload.list

\* user A asked for B's company by id and got a message only
C28_WitnessById ==
  /\ Answered(reqs[1])
  /\ reqs[1].route = "GET /api/companies/:id"
  /\ NonOwner(reqs[1])
  /\ reqs[1].status = 403
  /\ DOMAIN reqs[1].payload = {"message"}

\* an upload and a deletion addressing the same service are in flight or
\* answered
Racing ==
  \E s, t \in Slots :
    /\ reqs[s].pc # "idle" /\ reqs[t].pc # "idle"
    /\ reqs[s].route = "POST /api/services/:serviceId/images"
    /\ reqs[t].route = "DELETE /api/services/:id"
    /\ reqs[s].param = reqs[t].param

\* C29: however POST /api/services/:serviceId/images and DELETE
\* /api/services/:id interleave, every stored image refers to a stored
\* service.
C29_NoOrphanImage ==
  \A i \in store.serviceImages : \E sv \in store.services : sv.id = i.serviceId

\* the upload passed its existence and ownership checks, the deletion then
\* removed the service, and the insert of the image was rejected
C29_Witness ==
  /\ Racing
  /\ \E s, t \in Slots :
       /\ reqs[s].route = "POST /api/services/:serviceId/images"
       /\ reqs[t].route = "DELETE /api/services/:id"
       /\ reqs[s].pc = "done" /\ reqs[t].pc = "done"
       /\ reqs[t].status = 200 /\ reqs[s].status = 500
       /\ ~IsUndefined(reqs[s].company)
       /\ reqs[s].id = reqs[t].id
       /\ \A sv \in store.services : sv.id # reqs[t].id

\* the image was inserted between the two statements of deleteService: the
\* deletion of the service row was rejected and the service keeps the image
C29_WitnessDeleteRejected ==
  /\ Racing
  /\ \E s, t \in Slots :
       /\ reqs[s].route = "POST /api/services/:serviceId/images"
       /\ reqs[t].route = "DELETE /api/services/:id"
       /\ reqs[s].status = 201 /\ reqs[t].status = 500
       /\ \E sv \in store.services : sv.id = reqs[t].id
       /\ \E i \in store.serviceImages : i.serviceId = reqs[t].id

\* C4: after a deleteService(id) that succeeded, no image with that
\* serviceId is stored, whichever adapter is in use.
C4_DeleteServiceCascades ==
  (call.op = "deleteService" /\ ~call.err)
    => ~\E img \in store.serviceImages : img.serviceId = call.arg

\* the document adapter deleted a service and left an image of it behind
C4_Witness ==
  /\ backend = "fs"
  /\ call.op = "deleteService" /\ ~call.err
  /\ \E img \in store.serviceImages : img.serviceId = call.arg

\* the relational adapter deleted a service that had an image
C4_WitnessRelational ==
  /\ backend = "db"
  /\ call.op = "deleteService" /\ ~call.err
  /\ ~\E sv \in store.services : sv.id = call.arg
  /\ ~\E img \in store.serviceImages : img.serviceId = call.arg

====
